---- MODULE Spec2Model ----
(***************************************************************************)
(* Verification model of the financial calculation engine of               *)
(* asset-manager-backend: tax policy lookup, accelerated depreciation,     *)
(* basis recapture, the scenario orchestrator, the depreciation schedule   *)
(* generators and the loan amortization engine.                            *)
(*                                                                         *)
(* Arithmetic.  The Python code computes in binary floating point.  The    *)
(* model computes in decimal fixed point:                                  *)
(*   - scenario, tax and depreciation amounts are integers in cents;       *)
(*   - loan amounts are integers in mills (1/1000 dollar), so that the     *)
(*     code's round(x, 2) is a real rounding step (to a multiple of 10).   *)
(* Percentages are integers (24 means 24%, i.e. the float 0.24 or 24.0).   *)
(***************************************************************************)
EXTENDS Integers, Sequences, FiniteSets, TLC

VARIABLES
    \* ---- ScenarioCalculationService.calculate_scenario (one invocation) ----
    pc,                     \* position of the invocation in calculate_scenario
    inputs,                 \* ScenarioInputs
    tax_year,               \* datetime.now().year at the time of the call
    results,                \* ScenarioResults being accumulated
    section_179_budget,     \* local section_179_budget (dollars), 0 until computed
    section_179_remaining,  \* local section_179_remaining (cents), 0 until computed
    idx,                    \* number of list elements consumed by the running loop
    \* ---- pure calculators: the call made and what it returned ----
    call,                   \* [op |-> name, args |-> arguments] of the call made
    ret                     \* what the call returned: None before it returns

vars == <<pc, inputs, tax_year, results, section_179_budget,
          section_179_remaining, idx, call, ret>>

\* Optional[...] values: None is the empty sequence, a present value v is <<v>>.
None == <<>>

Some(v) == <<v>>

Val(o) == o[1]

\* an exception propagating out of a call
Raised(exception) == <<exception, "raised">>

Min(a, b) == IF a <= b THEN a ELSE b

Max(a, b) == IF a >= b THEN a ELSE b

Abs(a) == IF a < 0 THEN -a ELSE a

\* floor(x * n / d) for n >= 0, d > 0, computed without leaving 32 bits.
MulDiv(x, n, d) == (x \div d) * n + ((x % d) * n) \div d

\* Python int(x) of a fixed-point value x with `unit` units per whole: truncation toward 0.
TruncDiv(x, unit) == IF x >= 0 THEN x \div unit ELSE -((-x) \div unit)

RECURSIVE SumSeq(_)
SumSeq(s) == IF s = <<>> THEN 0 ELSE Head(s) + SumSeq(Tail(s))

\* the sequence <<f[1].field, ...>> helper: map a record sequence to one field
Field(s, name) == [i \in 1..Len(s) |-> s[i][name]]

(***************************************************************************)
(* Dates: datetime values at midnight, <<year, month, day>>, with          *)
(* dateutil's relativedelta(months=n) (the day is clipped to the length of *)
(* the target month) and timedelta.days.                                   *)
(***************************************************************************)
IsLeap(y) == (y % 4 = 0 /\ y % 100 # 0) \/ y % 400 = 0

DaysInMonth(y, m) ==
    IF m = 2 THEN (IF IsLeap(y) THEN 29 ELSE 28)
    ELSE IF m \in {4, 6, 9, 11} THEN 30 ELSE 31

Date(y, m, d) == <<y, m, d>>

\* date + relativedelta(months=n), n of either sign
AddMonths(date, n) ==
    LET total == date[1] * 12 + (date[2] - 1) + n
        y == total \div 12
        m == (total % 12) + 1
    IN  <<y, m, Min(date[3], DaysInMonth(y, m))>>

RECURSIVE DaysBeforeYear(_)
DaysBeforeYear(y) ==
    IF y = 2020 THEN 0
    ELSE IF y > 2020
    THEN DaysBeforeYear(y - 1) + (IF IsLeap(y - 1) THEN 366 ELSE 365)
    ELSE DaysBeforeYear(y + 1) - (IF IsLeap(y) THEN 366 ELSE 365)

RECURSIVE DaysBeforeMonth(_, _)
DaysBeforeMonth(y, m) ==
    IF m <= 1 THEN 0 ELSE DaysBeforeMonth(y, m - 1) + DaysInMonth(y, m - 1)

\* number of days since 2020-01-01
Ordinal(date) == DaysBeforeYear(date[1]) + DaysBeforeMonth(date[1], date[2]) + date[3] - 1

\* d1 <= d2 on datetimes
DateLE(d1, d2) == Ordinal(d1) <= Ordinal(d2)

\* (d2 - d1).days
DaysBetween(d1, d2) == Ordinal(d2) - Ordinal(d1)

\* A date string is None, a well-formed "YYYY-MM-DD" (the date it denotes), or
\* text that strptime rejects.
Malformed == <<0>>

IsValidDateString(str) == Len(str) = 3

\* faulty variant: an unparseable string becomes a fixed date, not the fallback
ParseOrEpoch(str, fallback) == IF IsValidDateString(str) THEN str ELSE <<2023, 1, 1>>

\* try: datetime.strptime(s, "%Y-%m-%d") except (ValueError, TypeError): fallback
ParseOr(str, fallback) == IF IsValidDateString(str) THEN str ELSE fallback

(***************************************************************************)
(* TaxPolicyService                                                        *)
(***************************************************************************)
Limit2024 == 1220000
Threshold2024 == 3050000
Bonus2024 == 60
Limit2025 == 1250000
Threshold2025 == 3130000
Bonus2025 == 40
\* first-year MACRS rates in basis points (20.00% and 14.29%)
Macrs5FirstYear == 2000
Macrs7FirstYear == 1429

policies ==
    [y \in {2024, 2025} |->
        IF y = 2024
        THEN [effective_year |-> 2024, section_179_limit |-> Limit2024,
              section_179_phaseout_threshold |-> Threshold2024,
              bonus_depreciation_percent |-> Bonus2024,
              macrs_5_first |-> Macrs5FirstYear, macrs_7_first |-> Macrs7FirstYear]
        ELSE [effective_year |-> 2025, section_179_limit |-> Limit2025,
              section_179_phaseout_threshold |-> Threshold2025,
              bonus_depreciation_percent |-> Bonus2025,
              macrs_5_first |-> Macrs5FirstYear, macrs_7_first |-> Macrs7FirstYear]]

latest_year == CHOOSE y \in DOMAIN policies : \A z \in DOMAIN policies : z <= y

get_policy_for_year(year) ==
    IF year \notin DOMAIN policies THEN policies[latest_year] ELSE policies[year]

\* faulty variant: the limit is reduced by the untruncated excess and truncated afterwards
Section179NoTruncation(total_equipment_purchases, year) ==
    LET policy == get_policy_for_year(year)
    IN  IF total_equipment_purchases <= policy.section_179_phaseout_threshold * 100
        THEN policy.section_179_limit
        ELSE LET phaseout_amount == total_equipment_purchases
                                    - policy.section_179_phaseout_threshold * 100
                 reduced_cents == policy.section_179_limit * 100 - phaseout_amount
             IN  Max(0, TruncDiv(reduced_cents, 100))

\* total_equipment_purchases in cents (a float in the code); the result is an
\* int number of dollars, as in the code.
calculate_section_179_limit_with_phaseout(total_equipment_purchases, year) ==
    LET policy == get_policy_for_year(year)
    IN  IF total_equipment_purchases <= policy.section_179_phaseout_threshold * 100
        THEN policy.section_179_limit
        ELSE LET phaseout_amount == total_equipment_purchases
                                    - policy.section_179_phaseout_threshold * 100
                 reduced_limit == policy.section_179_limit - TruncDiv(phaseout_amount, 100)
             IN  Max(0, reduced_limit)

get_macrs_first_year_rate(useful_life, year) ==
    LET policy == get_policy_for_year(year)
    IN  IF useful_life = 5 THEN policy.macrs_5_first
        ELSE IF useful_life = 7 THEN policy.macrs_7_first
        ELSE policy.macrs_5_first

(***************************************************************************)
(* DepreciationCalculationService                                          *)
(***************************************************************************)
DepreciationCalculation(cost, business_use_percent, depreciable_basis, bonus, s179, macrs, remaining_basis, method_used) ==
    [cost |-> cost, business_use_percent |-> business_use_percent,
     depreciable_basis |-> depreciable_basis,
     bonus_depreciation |-> bonus, section_179_deduction |-> s179,
     macrs_first_year |-> macrs,
     total_first_year_deduction |-> bonus + s179 + macrs,
     remaining_basis |-> remaining_basis, method_used |-> method_used]

\* cost * (business_use_percent / 100.0)
DepreciableBasis(cost, business_use_percent) == MulDiv(cost, business_use_percent, 100)

calculate_bonus_depreciation(cost, business_use_percent, in_service_year, override_bonus_percent) ==
    LET policy == get_policy_for_year(in_service_year)
        bonus_percent == IF override_bonus_percent # None
                         THEN Val(override_bonus_percent)
                         ELSE policy.bonus_depreciation_percent
        depreciable_basis == DepreciableBasis(cost, business_use_percent)
        bonus_amount == MulDiv(depreciable_basis, bonus_percent, 100)
    IN  DepreciationCalculation(cost, business_use_percent, depreciable_basis,
                                bonus_amount, 0, 0,
                                depreciable_basis - bonus_amount, "BONUS")

\* faulty variant: the remaining budget is not applied to the grant
Section179IgnoringBudget(cost, business_use_percent, section_179_available, business_income_limit) ==
    LET depreciable_basis == DepreciableBasis(cost, business_use_percent)
        amount == IF business_income_limit # None
                  THEN Min(depreciable_basis, Val(business_income_limit))
                  ELSE depreciable_basis
    IN  DepreciationCalculation(cost, business_use_percent, depreciable_basis,
                                0, amount, 0, depreciable_basis - amount,
                                "SECTION_179")

calculate_section_179(cost, business_use_percent, section_179_available, business_income_limit) ==
    LET depreciable_basis == DepreciableBasis(cost, business_use_percent)
        by_budget == Min(depreciable_basis, section_179_available)
        section_179_amount == IF business_income_limit # None
                              THEN Min(by_budget, Val(business_income_limit))
                              ELSE by_budget
    IN  DepreciationCalculation(cost, business_use_percent, depreciable_basis,
                                0, section_179_amount, 0,
                                depreciable_basis - section_179_amount,
                                "SECTION_179")

calculate_macrs_gds(cost, business_use_percent, in_service_year, useful_life) ==
    LET depreciable_basis == DepreciableBasis(cost, business_use_percent)
        first_year_rate == get_macrs_first_year_rate(useful_life, in_service_year)
        macrs_first_year == MulDiv(depreciable_basis, first_year_rate, 10000)
    IN  DepreciationCalculation(cost, business_use_percent, depreciable_basis,
                                0, 0, macrs_first_year,
                                depreciable_basis - macrs_first_year, "MACRS_GDS")

\* (1.0 / useful_life) * 0.5 raises ZeroDivisionError for useful_life = 0;
\* the callers of this operator model that case.
calculate_macrs_ads(cost, business_use_percent, in_service_year, useful_life) ==
    LET depreciable_basis == DepreciableBasis(cost, business_use_percent)
        ads_first_year == IF useful_life > 0
                          THEN depreciable_basis \div (2 * useful_life)
                          ELSE -(depreciable_basis \div (2 * (-useful_life)))
    IN  DepreciationCalculation(cost, business_use_percent, depreciable_basis,
                                0, 0, ads_first_year,
                                depreciable_basis - ads_first_year, "MACRS_ADS")

\* faulty variant: of several candidates with the largest deduction the last one wins
LastLargest(candidates) ==
    LET i == CHOOSE k \in 1..Len(candidates) :
                 /\ \A j \in 1..Len(candidates) :
                        candidates[j].total_first_year_deduction
                            <= candidates[k].total_first_year_deduction
                 /\ \A j \in (k + 1)..Len(candidates) :
                        candidates[j].total_first_year_deduction
                            < candidates[k].total_first_year_deduction
    IN  candidates[i]

\* max(candidates, key=lambda x: x.total_first_year_deduction): the first of the
\* candidates with the largest deduction
FirstLargest(candidates) ==
    LET i == CHOOSE k \in 1..Len(candidates) :
                 /\ \A j \in 1..Len(candidates) :
                        candidates[j].total_first_year_deduction
                            <= candidates[k].total_first_year_deduction
                 /\ \A j \in 1..(k - 1) :
                        candidates[j].total_first_year_deduction
                            < candidates[k].total_first_year_deduction
    IN  candidates[i]

calculate_optimal_method(cost, business_use_percent, in_service_year, section_179_available, business_income_limit, useful_life) ==
    LET section_179_calc == calculate_section_179(cost, business_use_percent,
                                section_179_available, business_income_limit)
        bonus_calc == calculate_bonus_depreciation(cost, business_use_percent,
                                                   in_service_year, None)
        macrs_calc == calculate_macrs_gds(cost, business_use_percent, in_service_year,
                                          useful_life)
    IN  FirstLargest(<<section_179_calc, bonus_calc, macrs_calc>>)

(***************************************************************************)
(* BasisRecaptureService                                                   *)
(***************************************************************************)
\* rates are integer percentages; taxes are floor(amount * rate / 100) cents
calculate_sale_tax_impact(original_cost, accumulated_depreciation, sale_price, transaction_fees, ordinary_tax_rate, capital_gains_rate) ==
    LET adjusted_basis == original_cost - accumulated_depreciation
        total_gain == sale_price - adjusted_basis
        section_1245_recapture == Min(Max(0, total_gain), accumulated_depreciation)
        section_1231_gain == Max(0, total_gain - section_1245_recapture)
        tax_on_recapture == MulDiv(section_1245_recapture, ordinary_tax_rate, 100)
        tax_on_capital_gain == MulDiv(section_1231_gain, capital_gains_rate, 100)
        total_tax == tax_on_recapture + tax_on_capital_gain
        gross_proceeds == sale_price
        net_proceeds_before_tax == gross_proceeds - transaction_fees
    IN  [sale_price |-> sale_price, original_cost |-> original_cost,
         accumulated_depreciation |-> accumulated_depreciation,
         adjusted_basis |-> adjusted_basis, total_gain |-> total_gain,
         section_1245_recapture |-> section_1245_recapture,
         section_1231_gain |-> section_1231_gain,
         gross_proceeds |-> gross_proceeds, transaction_fees |-> transaction_fees,
         net_proceeds_before_tax |-> net_proceeds_before_tax,
         tax_on_recapture |-> tax_on_recapture,
         tax_on_capital_gain |-> tax_on_capital_gain,
         net_proceeds_after_tax |-> net_proceeds_before_tax - total_tax]

(***************************************************************************)
(* LoanInformationService                                                  *)
(* Amounts are in mills.  interest_rate and prepayment_penalty_rate are    *)
(* integer percentages.                                                    *)
(***************************************************************************)
\* numer / denom rounded to the nearest integer, ties to the even one (Python round)
RoundHalfEven(numer, denom) ==
    LET q == numer \div denom
        r == numer % denom
    IN  IF 2 * r < denom THEN q
        ELSE IF 2 * r > denom THEN q + 1
        ELSE IF q % 2 = 0 THEN q ELSE q + 1

\* round(x, 2) of an amount in mills
Round2(x) == 10 * RoundHalfEven(x, 10)

RECURSIVE GCD(_, _)
GCD(a, b) == IF b = 0 THEN a ELSE GCD(b, a % b)

RECURSIVE Pow(_, _)
Pow(b, e) == IF e = 0 THEN 1 ELSE b * Pow(b, e - 1)

\* <<q, r>> with x * n = q * d + r and 0 <= r < d, for x, n >= 0 and d > 0,
\* by doubling, so that no intermediate value leaves 32 bits
RECURSIVE MulDivQR(_, _, _)
MulDivQR(x, n, d) ==
    IF n = 0 THEN <<0, 0>>
    ELSE LET h == MulDivQR(x, n \div 2, d)
             q2 == 2 * h[1] + ((2 * h[2]) \div d)
             r2 == (2 * h[2]) % d
         IN  IF n % 2 = 0 THEN <<q2, r2>>
             ELSE <<q2 + (x \div d) + ((r2 + (x % d)) \div d), (r2 + (x % d)) % d>>

\* ceiling of x * n / d
CeilMulDiv(x, n, d) ==
    LET qr == MulDivQR(x, n, d) IN IF qr[2] = 0 THEN qr[1] ELSE qr[1] + 1

\* calculate_monthly_payment raises ZeroDivisionError: 1 - pow(1 + r, -0) = 0
MonthlyPaymentRaises(interest_rate, loan_term_years) ==
    interest_rate # 0 /\ loan_term_years * 12 = 0

\* The monthly rate interest_rate / 1200 is kept as the fraction num / den in lowest
\* terms and P * r / (1 - (1 + r)^-n) is evaluated as
\* P * num * (den + num)^n / (den * ((den + num)^n - den^n)).  The float result
\* (of either branch) is kept to the mill, rounded up, so that n payments cover the
\* principal as the float payment does.
calculate_monthly_payment(loan_amount, interest_rate, loan_term_years) ==
    LET total_payments == loan_term_years * 12
        g == GCD(interest_rate, 1200)
        num == interest_rate \div g
        den == 1200 \div g
        grown == Pow(den + num, total_payments)
    IN  IF interest_rate = 0
        THEN (IF total_payments > 0 THEN CeilMulDiv(loan_amount, 1, total_payments) ELSE 0)
        ELSE CeilMulDiv(loan_amount * num, grown,
                        den * (grown - Pow(den, total_payments)))

Loan(loan_amount, interest_rate, loan_term_years, monthly_payment, loan_start_date, loan_end_date) ==
    [loan_amount |-> loan_amount, interest_rate |-> interest_rate,
     loan_term_years |-> loan_term_years, monthly_payment |-> monthly_payment,
     loan_start_date |-> loan_start_date, loan_end_date |-> loan_end_date]

\* faulty variant: the payment amount of the capped last payment is left at monthly_payment
PaymentSplitUncappedTotal(remaining_balance, monthly_payment, interest_rate) ==
    LET interest_payment == MulDiv(remaining_balance, interest_rate, 1200)
        principal_payment == monthly_payment - interest_payment
    IN  [interest_payment |-> interest_payment,
         principal_payment |-> Min(principal_payment, remaining_balance),
         total_payment |-> monthly_payment]

\* the interest / principal split of one payment (the body of the while loop up to
\* the balance update)
PaymentSplit(remaining_balance, monthly_payment, interest_rate) ==
    LET interest_payment == MulDiv(remaining_balance, interest_rate, 1200)
        principal_payment == monthly_payment - interest_payment
    IN  IF principal_payment > remaining_balance
        THEN [interest_payment |-> interest_payment,
              principal_payment |-> remaining_balance,
              total_payment |-> remaining_balance + interest_payment]
        ELSE [interest_payment |-> interest_payment,
              principal_payment |-> principal_payment,
              total_payment |-> monthly_payment]

\* the while loop of generate_amortization_schedule
RECURSIVE AmortizationLoop(_, _, _, _, _)
AmortizationLoop(loan, remaining_balance, current_date, end_date, payment_number) ==
    IF remaining_balance > 10 /\ DateLE(current_date, end_date)
    THEN LET split == PaymentSplit(remaining_balance, loan.monthly_payment,
                                   loan.interest_rate)
             balance == Max(0, remaining_balance - split.principal_payment)
         IN  << [payment_number |-> payment_number,
                 payment_date |-> current_date,
                 payment_amount |-> Round2(split.total_payment),
                 principal_payment |-> Round2(split.principal_payment),
                 interest_payment |-> Round2(split.interest_payment),
                 remaining_balance |-> Round2(balance)] >>
             \o AmortizationLoop(loan, balance, AddMonths(current_date, 1),
                                 end_date, payment_number + 1)
    ELSE <<>>

\* loan.loan_start_date parsed, or now when missing or malformed
StartDate(loan, now) == ParseOr(loan.loan_start_date, now)

\* loan.loan_end_date parsed, or start_date + term when missing or malformed
EndDate(loan, now) ==
    ParseOr(loan.loan_end_date, AddMonths(StartDate(loan, now), loan.loan_term_years * 12))

generate_amortization_schedule(loan, now) ==
    AmortizationLoop(loan, loan.loan_amount, AddMonths(StartDate(loan, now), 1),
                     EndDate(loan, now), 1)

\* the while loop of generate_loan_schedule: the whole payment comes off the balance
RECURSIVE LoanScheduleLoop(_, _, _, _)
LoanScheduleLoop(remaining_balance, monthly_payment, current_date, end_date) ==
    IF remaining_balance > 0 /\ DateLE(current_date, end_date)
    THEN LET balance == IF monthly_payment > remaining_balance THEN 0
                        ELSE remaining_balance - monthly_payment
         IN  << [loan_payment_date |-> current_date, new_remaining_value |-> balance] >>
             \o LoanScheduleLoop(balance, monthly_payment, AddMonths(current_date, 1),
                                 end_date)
    ELSE <<>>

generate_loan_schedule(loan, now) ==
    LoanScheduleLoop(loan.loan_amount, loan.monthly_payment,
                     AddMonths(StartDate(loan, now), 1), EndDate(loan, now))

(***************************************************************************)
(* LoanManager.create_loan / update_loan: the loan record and the          *)
(* projected payments written for it                                       *)
(***************************************************************************)
\* the loan as create_loan stores it: payment computed, missing dates filled in
\* (the end date from now, not from the start date)
LoanAsCreated(loan, now) ==
    [loan EXCEPT
        !.monthly_payment = calculate_monthly_payment(loan.loan_amount,
                                loan.interest_rate, loan.loan_term_years),
        !.loan_start_date = IF loan.loan_start_date = None THEN now ELSE @,
        !.loan_end_date = IF loan.loan_end_date = None
                          THEN AddMonths(now, 12 * loan.loan_term_years) ELSE @]

\* the loan as update_loan stores it: payment computed, dates as given
LoanAsUpdated(loan) ==
    [loan EXCEPT
        !.monthly_payment = calculate_monthly_payment(loan.loan_amount,
                                loan.interest_rate, loan.loan_term_years)]

\* one LoanProjectedPaymentsDTO per entry of the generated schedule
ProjectedPayments(stored_loan, now) ==
    [loan |-> stored_loan, projected_payments |-> generate_loan_schedule(stored_loan, now)]

create_loan(loan, now) ==
    IF MonthlyPaymentRaises(loan.interest_rate, loan.loan_term_years)
    THEN Raised("ZeroDivisionError")
    ELSE Some(ProjectedPayments(LoanAsCreated(loan, now), now))

\* updated and deleted are what the two database calls report
update_loan(loan, updated, deleted, now) ==
    IF MonthlyPaymentRaises(loan.interest_rate, loan.loan_term_years)
    THEN Raised("ZeroDivisionError")
    ELSE IF ~updated \/ ~deleted THEN Raised("Exception")
    ELSE Some(ProjectedPayments(LoanAsUpdated(loan), now))

\* the for loop of calculate_loan_payoff over schedule[i..]: the running
\* [remaining_balance, interest_paid_to_date, principal_paid_to_date]
RECURSIVE PayoffLoop(_, _, _, _)
PayoffLoop(schedule, i, target_date, acc) ==
    IF i > Len(schedule) THEN acc
    ELSE LET payment == schedule[i]
         IN  IF DateLE(payment.payment_date, target_date)
             THEN PayoffLoop(schedule, i + 1, target_date,
                      [remaining_balance |-> payment.remaining_balance,
                       interest_paid_to_date |->
                           acc.interest_paid_to_date + payment.interest_payment,
                       principal_paid_to_date |->
                           acc.principal_paid_to_date + payment.principal_payment])
             ELSE LET start_of_month == AddMonths(payment.payment_date, -1)
                      days_elapsed == DaysBetween(start_of_month, target_date)
                  IN  IF days_elapsed > 0 /\ days_elapsed < 30
                      THEN [acc EXCEPT !.interest_paid_to_date =
                                @ + MulDiv(payment.interest_payment, days_elapsed, 30)]
                      ELSE acc

\* the returned dict; the penalty and the total are rounded from their exact values
calculate_loan_payoff(loan, payoff_date, prepayment_penalty_rate, now) ==
    LET target_date == ParseOr(payoff_date, now)
        schedule == generate_amortization_schedule(loan, now)
        acc == PayoffLoop(schedule, 1, target_date,
                          [remaining_balance |-> loan.loan_amount,
                           interest_paid_to_date |-> 0,
                           principal_paid_to_date |-> 0])
        remaining_balance == acc.remaining_balance
    IN  [payoff_date |-> payoff_date,
         remaining_balance |-> Round2(remaining_balance),
         prepayment_penalty |->
             10 * RoundHalfEven(remaining_balance * prepayment_penalty_rate, 1000),
         total_payoff_amount |->
             10 * RoundHalfEven(remaining_balance * (100 + prepayment_penalty_rate), 1000),
         total_interest_paid |-> Round2(acc.interest_paid_to_date),
         total_principal_paid |-> Round2(acc.principal_paid_to_date),
         original_loan_amount |-> loan.loan_amount]

(***************************************************************************)
(* LoanImpactService                                                       *)
(* Amounts are in mills; a loan argument is None or Some(loan).            *)
(***************************************************************************)
\* round(x * n / d) for n, d > 0, ties to even
RoundMulDiv(x, n, d) ==
    LET qr == MulDivQR(Abs(x), n, d)
        magnitude == IF 2 * qr[2] < d THEN qr[1]
                     ELSE IF 2 * qr[2] > d THEN qr[1] + 1
                     ELSE IF qr[1] % 2 = 0 THEN qr[1] ELSE qr[1] + 1
    IN  IF x < 0 THEN -magnitude ELSE magnitude

\* sum(payment["interest_payment"] for payment in schedule)
TotalInterest(loan, now) ==
    SumSeq(Field(generate_amortization_schedule(loan, now), "interest_payment"))

\* faulty variant: the interest already paid is not taken off
InterestSavingsOfFullSchedule(loan, total_interest_paid, now) ==
    TotalInterest(loan, now)

\* interest that will not be paid: the interest of the full schedule less the
\* interest paid through the payoff
InterestSavings(loan, total_interest_paid, now) ==
    TotalInterest(loan, now) - total_interest_paid

\* faulty variant: the transaction fees are not taken off the proceeds
NetProceedsIgnoringFees(asset_sale_price, transaction_fees, loan_payoff) ==
    asset_sale_price - loan_payoff

NetProceeds(asset_sale_price, transaction_fees, loan_payoff) ==
    asset_sale_price - (transaction_fees + loan_payoff)

calculate_liquidation_impact(asset_sale_price, existing_loan, liquidation_date, transaction_fees, prepayment_penalty_rate, now) ==
    LET has_loan == existing_loan # None
        payoff_info == calculate_loan_payoff(Val(existing_loan), liquidation_date,
                                             prepayment_penalty_rate, now)
        loan_payoff == IF has_loan THEN payoff_info.total_payoff_amount ELSE 0
        remaining_balance == IF has_loan THEN payoff_info.remaining_balance ELSE 0
        prepayment_penalty == IF has_loan THEN payoff_info.prepayment_penalty ELSE 0
        total_interest_paid == IF has_loan THEN payoff_info.total_interest_paid ELSE 0
        interest_savings ==
            IF has_loan
            THEN InterestSavings(Val(existing_loan), total_interest_paid, now)
            ELSE 0
        gross_proceeds == asset_sale_price
        total_costs == transaction_fees + loan_payoff
        net_proceeds == NetProceeds(gross_proceeds, transaction_fees, loan_payoff)
    IN  [asset_sale_price |-> Round2(asset_sale_price),
         transaction_fees |-> Round2(transaction_fees),
         loan_payoff |->
             [has_loan |-> has_loan,
              remaining_balance |-> Round2(remaining_balance),
              prepayment_penalty |-> Round2(prepayment_penalty),
              total_payoff_amount |-> Round2(loan_payoff),
              interest_paid_to_date |-> Round2(total_interest_paid),
              interest_savings |-> Round2(interest_savings)],
         gross_proceeds |-> Round2(gross_proceeds),
         total_costs |-> Round2(total_costs),
         net_proceeds |-> Round2(net_proceeds),
         liquidation_date |-> liquidation_date]

\* monthly_change_percent is in hundredths of a percent
calculate_replacement_impact(liquidation_impact, replacement_asset_price, replacement_loan, existing_loan, now) ==
    LET net_proceeds == liquidation_impact.net_proceeds
        has_old == existing_loan # None
        has_new == replacement_loan # None
        down_payment == IF has_new
                        THEN replacement_asset_price - Val(replacement_loan).loan_amount
                        ELSE replacement_asset_price
        cash_required == down_payment - net_proceeds
        old_monthly_payment == IF has_old THEN Val(existing_loan).monthly_payment ELSE 0
        new_monthly_payment == IF has_new THEN Val(replacement_loan).monthly_payment ELSE 0
        monthly_payment_change == new_monthly_payment - old_monthly_payment
        total_interest_new_loan ==
            IF has_new THEN TotalInterest(Val(replacement_loan), now) ELSE 0
        total_interest_old_loan ==
            IF has_old THEN TotalInterest(Val(existing_loan), now) ELSE 0
        interest_cost_change == total_interest_new_loan - total_interest_old_loan
    IN  [replacement_asset_price |-> Round2(replacement_asset_price),
         net_proceeds_from_liquidation |-> Round2(net_proceeds),
         down_payment_required |-> Round2(down_payment),
         cash_required |-> Round2(cash_required),
         cash_surplus |-> IF cash_required < 0 THEN Round2(-cash_required) ELSE 0,
         monthly_payment_comparison |->
             [old_monthly_payment |-> Round2(old_monthly_payment),
              new_monthly_payment |-> Round2(new_monthly_payment),
              monthly_change |-> Round2(monthly_payment_change),
              monthly_change_percent |->
                  IF old_monthly_payment > 0
                  THEN RoundMulDiv(monthly_payment_change, 10000, old_monthly_payment)
                  ELSE 0],
         interest_cost_comparison |->
             [total_interest_old_loan |-> Round2(total_interest_old_loan),
              total_interest_new_loan |-> Round2(total_interest_new_loan),
              interest_cost_change |-> Round2(interest_cost_change),
              interest_saved |-> IF interest_cost_change < 0
                                 THEN Round2(-interest_cost_change) ELSE 0],
         loan_terms_comparison |->
             [has_old_loan |-> has_old,
              has_new_loan |-> has_new,
              old_loan_term_months |->
                  IF has_old THEN Val(existing_loan).loan_term_years * 12 ELSE 0,
              new_loan_term_months |->
                  IF has_new THEN Val(replacement_loan).loan_term_years * 12 ELSE 0,
              old_interest_rate |-> IF has_old THEN Val(existing_loan).interest_rate ELSE 0,
              new_interest_rate |->
                  IF has_new THEN Val(replacement_loan).interest_rate ELSE 0]]

\* faulty variant: the interest cost signal weighs 1 like the others
SignalScoresUnweighted(liquidation, replacement) ==
    LET monthly_change == replacement.monthly_payment_comparison.monthly_change
        interest_change == replacement.interest_cost_comparison.interest_cost_change
    IN  << [positive |-> IF liquidation.net_proceeds > 0 THEN 1 ELSE 0,
            negative |-> IF liquidation.net_proceeds > 0 THEN 0 ELSE 1,
            factor |-> IF liquidation.net_proceeds > 0
                       THEN <<"Liquidation generates positive net proceeds">>
                       ELSE <<"Liquidation results in net loss">>],
           [positive |-> IF monthly_change < 0 THEN 1 ELSE 0,
            negative |-> IF monthly_change > 0 THEN 1 ELSE 0,
            factor |-> IF monthly_change < 0
                       THEN <<"Monthly payment decreases by", Abs(monthly_change)>>
                       ELSE <<"Monthly payment increases by", monthly_change>>],
           [positive |-> IF interest_change < 0 THEN 1 ELSE 0,
            negative |-> IF interest_change > 0 THEN 1 ELSE 0,
            factor |-> IF interest_change < 0
                       THEN <<"Total interest savings of", Abs(interest_change)>>
                       ELSE <<"Increased interest costs of", interest_change>>],
           [positive |-> IF replacement.cash_required <= 0 THEN 1 ELSE 0,
            negative |-> IF replacement.cash_required <= 0 THEN 0 ELSE 1,
            factor |-> IF replacement.cash_required <= 0
                       THEN <<"No additional cash required (surplus available)">>
                       ELSE <<"Additional cash required:", replacement.cash_required>>] >>

\* the four checks of _generate_recommendation in order: what each adds to
\* positive_score and negative_score, and the factor it appends when it scores
SignalScores(liquidation, replacement) ==
    LET monthly_change == replacement.monthly_payment_comparison.monthly_change
        interest_change == replacement.interest_cost_comparison.interest_cost_change
    IN  << [positive |-> IF liquidation.net_proceeds > 0 THEN 1 ELSE 0,
            negative |-> IF liquidation.net_proceeds > 0 THEN 0 ELSE 1,
            factor |-> IF liquidation.net_proceeds > 0
                       THEN <<"Liquidation generates positive net proceeds">>
                       ELSE <<"Liquidation results in net loss">>],
           [positive |-> IF monthly_change < 0 THEN 1 ELSE 0,
            negative |-> IF monthly_change > 0 THEN 1 ELSE 0,
            factor |-> IF monthly_change < 0
                       THEN <<"Monthly payment decreases by", Abs(monthly_change)>>
                       ELSE <<"Monthly payment increases by", monthly_change>>],
           [positive |-> IF interest_change < 0 THEN 2 ELSE 0,
            negative |-> IF interest_change > 0 THEN 2 ELSE 0,
            factor |-> IF interest_change < 0
                       THEN <<"Total interest savings of", Abs(interest_change)>>
                       ELSE <<"Increased interest costs of", interest_change>>],
           [positive |-> IF replacement.cash_required <= 0 THEN 1 ELSE 0,
            negative |-> IF replacement.cash_required <= 0 THEN 0 ELSE 1,
            factor |-> IF replacement.cash_required <= 0
                       THEN <<"No additional cash required (surplus available)">>
                       ELSE <<"Additional cash required:", replacement.cash_required>>] >>

\* the factors of the checks that scored, in order
RECURSIVE ScoredFactors(_)
ScoredFactors(signals) ==
    IF signals = <<>> THEN <<>>
    ELSE (IF signals[1].positive + signals[1].negative > 0
          THEN <<signals[1].factor>> ELSE <<>>)
         \o ScoredFactors(Tail(signals))

\* positive_score > negative_score * 1.5 is compared as 2 * positive > 3 * negative
generate_recommendation(liquidation, replacement) ==
    LET signals == SignalScores(liquidation, replacement)
        positive_score == SumSeq(Field(signals, "positive"))
        negative_score == SumSeq(Field(signals, "negative"))
        recommendation_text ==
            IF 2 * positive_score > 3 * negative_score
            THEN "Favorable - This scenario shows strong financial benefits"
            ELSE IF positive_score > negative_score
            THEN "Moderately Favorable - This scenario has some financial benefits"
            ELSE IF positive_score = negative_score
            THEN "Neutral - This scenario has balanced pros and cons"
            ELSE "Unfavorable - This scenario may have negative financial impacts"
    IN  [recommendation |-> recommendation_text,
         positive_score |-> positive_score,
         negative_score |-> negative_score,
         key_factors |-> ScoredFactors(signals)]

\* the dict calculate_total_scenario_impact returns for the two impacts it computed
TotalScenarioImpact(liquidation, replacement, liquidation_date) ==
    [scenario_summary |->
         [liquidation_date |-> liquidation_date,
          net_cash_impact |-> Round2(replacement.cash_required),
          net_cash_surplus |->
              IF replacement.cash_required < 0
              THEN Round2(-replacement.cash_required) ELSE 0,
          monthly_obligation_change |->
              Round2(replacement.monthly_payment_comparison.monthly_change),
          annual_obligation_change |->
              Round2(replacement.monthly_payment_comparison.monthly_change * 12),
          interest_savings_from_payoff |->
              Round2(liquidation.loan_payoff.interest_savings),
          total_interest_cost_change |->
              Round2(replacement.interest_cost_comparison.interest_cost_change)],
     liquidation_details |-> liquidation,
     replacement_details |-> replacement,
     recommendation |-> generate_recommendation(liquidation, replacement)]

\* the replacement impact follows from the liquidation impact
ReplacementAfterLiquidation(liquidation, liquidation_date, existing_loan, replacement_asset_price, replacement_loan, now) ==
    TotalScenarioImpact(liquidation,
                        calculate_replacement_impact(liquidation, replacement_asset_price,
                                                     replacement_loan, existing_loan, now),
                        liquidation_date)

calculate_total_scenario_impact(asset_sale_price, liquidation_date, existing_loan, replacement_asset_price, replacement_loan, transaction_fees, prepayment_penalty_rate, now) ==
    ReplacementAfterLiquidation(
        calculate_liquidation_impact(asset_sale_price, existing_loan, liquidation_date,
                                     transaction_fees, prepayment_penalty_rate, now),
        liquidation_date, existing_loan, replacement_asset_price, replacement_loan, now)

(***************************************************************************)
(* AssetDepreciationService                                                *)
(* Amounts are in cents.  A rate is a fraction <<numerator, denominator>>. *)
(***************************************************************************)
AssetDepreciationDTO(depreciation_date, new_book_value) ==
    [depreciation_date |-> depreciation_date, new_book_value |-> new_book_value]

\* datetime.now().replace(day=1) - relativedelta(years=1)
ScheduleStart(now) == AddMonths(Date(now[1], now[2], 1), -12)

\* months month..last of the straight-line for loop
RECURSIVE StraightLineLoop(_, _, _, _, _, _)
StraightLineLoop(book_value, salvage_value, monthly_depreciation, current_date, month, last) ==
    IF month > last THEN <<>>
    ELSE LET reduced == book_value - monthly_depreciation
             value == IF reduced < salvage_value THEN salvage_value ELSE reduced
         IN  <<AssetDepreciationDTO(current_date, value)>>
             \o StraightLineLoop(value, salvage_value, monthly_depreciation,
                                 AddMonths(current_date, 1), month + 1, last)

straight_line_depreciation(initial_cost, salvage_value, useful_life, now) ==
    IF useful_life = 0 THEN Raised("ZeroDivisionError")
    ELSE Some(StraightLineLoop(initial_cost, salvage_value,
                               (initial_cost - salvage_value) \div (useful_life * 12),
                               ScheduleStart(now), 1, useful_life * 12))

\* months month..last of the declining-balance for loop
RECURSIVE DecliningBalanceLoop(_, _, _, _, _, _)
DecliningBalanceLoop(book_value, salvage_value, rate, current_date, month, last) ==
    IF month > last THEN <<>>
    ELSE LET depreciation == MulDiv(book_value, rate[1], rate[2] * 12)
             reduced == book_value - depreciation
             value == IF reduced < salvage_value THEN salvage_value ELSE reduced
         IN  <<AssetDepreciationDTO(current_date, value)>>
             \o DecliningBalanceLoop(value, salvage_value, rate,
                                     AddMonths(current_date, 1), month + 1, last)

declining_balance_depreciation(initial_cost, salvage_value, useful_life, rate, now) ==
    Some(DecliningBalanceLoop(initial_cost, salvage_value, rate, ScheduleStart(now),
                              1, useful_life * 12))

double_declining_balance_depreciation(initial_cost, salvage_value, useful_life, now) ==
    IF useful_life = 0 THEN Raised("ZeroDivisionError")
    ELSE declining_balance_depreciation(initial_cost, salvage_value, useful_life,
                                        <<2, useful_life>>, now)

\* months month..last of the units-of-production for loop
RECURSIVE UnitsOfProductionLoop(_, _, _, _, _, _, _)
UnitsOfProductionLoop(book_value, args, total_units, units_per_month, current_date, month, last) ==
    IF month > last THEN <<>>
    ELSE LET units_produced_this_month ==
                 Min(units_per_month, total_units - (month - 1) * units_per_month)
             reduced == book_value - MulDiv(args.initial_cost - args.salvage_value,
                                            units_produced_this_month, total_units)
             value == IF reduced < args.salvage_value THEN args.salvage_value
                      ELSE reduced
         IN  <<AssetDepreciationDTO(current_date, value)>>
             \o UnitsOfProductionLoop(value, args, total_units, units_per_month,
                                      AddMonths(current_date, 1), month + 1, last)

\* total_months = ceil(total_units / units_produced_per_year * 12); either division
\* raises ZeroDivisionError on a zero divisor
units_of_production_depreciation(initial_cost, salvage_value, total_units, units_produced_per_year, now) ==
    IF total_units = 0 \/ units_produced_per_year = 0
    THEN Raised("ZeroDivisionError")
    ELSE LET total_months == (12 * total_units + units_produced_per_year - 1)
                             \div units_produced_per_year
         IN  Some(UnitsOfProductionLoop(initial_cost,
                      [initial_cost |-> initial_cost, salvage_value |-> salvage_value],
                      total_units, units_produced_per_year \div 12,
                      ScheduleStart(now), 1, total_months))

(***************************************************************************)
(* ScenarioCalculationService.calculate_scenario                           *)
(***************************************************************************)
MaxReplacements == 3

ReplacementAsset(cost, method, business_use_percent, in_service_year, useful_life) ==
    [cost |-> cost, method |-> method, business_use_percent |-> business_use_percent,
     in_service_year |-> in_service_year, useful_life |-> useful_life]

\* the replacement assets a request may list (cost in cents)
ReplacementChoices ==
    { ReplacementAsset(60000, "SECTION_179", 100, 2025, 5),
      ReplacementAsset(80000, "SECTION_179", 50, 2025, 5),
      ReplacementAsset(200000000, "SECTION_179", 100, 2025, 5),
      ReplacementAsset(50000, "BONUS", 100, 2024, 5),
      ReplacementAsset(70000, "LEASE", 100, 2025, 5),
      ReplacementAsset(40000, "MACRS_GDS", 100, 2025, 7),
      ReplacementAsset(90000, "MACRS_ADS", 100, 2025, 5) }

SeqsUpTo(S, n) == UNION { [1..k -> S] : k \in 0..n }

AssetSale(original_cost, accumulated_depreciation, sale_price, transaction_fees) ==
    [original_cost |-> original_cost,
     accumulated_depreciation |-> accumulated_depreciation,
     sale_price |-> sale_price, transaction_fees |-> transaction_fees]

\* the lists of assets to sell a request may carry (cents)
AssetSaleLists ==
    { <<>>,
      << AssetSale(5000000, 4000000, 6000000, 100000) >>,
      << AssetSale(5000000, 4000000, 6000000, 100000),
         AssetSale(100000, 20000, 50000, 0) >> }

ScenarioInputSet ==
    [assets_to_sell : AssetSaleLists,
     replacement_assets : SeqsUpTo(ReplacementChoices, MaxReplacements),
     marginal_tax_rate : {24},
     capital_gains_rate : {15},
     business_income_limit : {None, Some(50000), Some(-10000)},
     override_section_179_limit : {None, Some(1000), Some(0)},
     override_bonus_percent : {None}]

\* ScenarioResults() as constructed at the start of calculate_scenario
NewScenarioResults ==
    [total_sale_proceeds |-> 0, total_transaction_fees |-> 0,
     total_section_1245_recapture |-> 0, total_section_1231_gain |-> 0,
     total_tax_on_sales |-> 0, net_cash_from_liquidation |-> 0,
     total_replacement_cost |-> 0, total_bonus_depreciation |-> 0,
     total_section_179 |-> 0, total_macrs_first_year |-> 0,
     total_first_year_deductions |-> 0, tax_savings_from_deductions |-> 0,
     cash_required_for_replacements |-> 0, net_cash_flow |-> 0,
     sale_details |-> <<>>, replacement_details |-> <<>>, warnings |-> <<>>]

NoCall == [op |-> "none"]

ScenarioIdle == call = NoCall /\ ret = None

InitScenario ==
    /\ inputs \in ScenarioInputSet
    /\ tax_year \in {2024, 2026}
    /\ pc = "sales"
    /\ results = NewScenarioResults
    /\ section_179_budget = 0
    /\ section_179_remaining = 0
    /\ idx = 0
    /\ ScenarioIdle

\* the body of `for sale in inputs.assets_to_sell` on the accumulator res
SaleProcessed(res, sale, inp) ==
    LET sale_calc == calculate_sale_tax_impact(
                         sale.original_cost, sale.accumulated_depreciation,
                         sale.sale_price, sale.transaction_fees,
                         inp.marginal_tax_rate, inp.capital_gains_rate)
    IN  [res EXCEPT
            !.sale_details = Append(@, sale_calc),
            !.total_sale_proceeds = @ + sale_calc.gross_proceeds,
            !.total_transaction_fees = @ + sale_calc.transaction_fees,
            !.total_section_1245_recapture = @ + sale_calc.section_1245_recapture,
            !.total_section_1231_gain = @ + sale_calc.section_1231_gain,
            !.total_tax_on_sales = @ + sale_calc.tax_on_recapture
                                     + sale_calc.tax_on_capital_gain]

\* Step 1, one iteration of `for sale in inputs.assets_to_sell`
ProcessSale ==
    /\ pc = "sales"
    /\ idx < Len(inputs.assets_to_sell)
    /\ results' = SaleProcessed(results, inputs.assets_to_sell[idx + 1], inputs)
    /\ idx' = idx + 1
    /\ UNCHANGED <<pc, inputs, tax_year, section_179_budget, section_179_remaining,
                   call, ret>>

KnownMethods == {"BONUS", "SECTION_179", "MACRS_GDS", "MACRS_ADS"}

IsKnownMethod(replacement) == replacement.method \in KnownMethods

\* faulty variant: assets with an unknown method tag are left out of the purchase total
TotalKnownReplacementCost(inp) ==
    SumSeq(Field(SelectSeq(inp.replacement_assets, IsKnownMethod), "cost"))

\* sum(r.cost for r in inputs.replacement_assets): every listed asset counts
TotalReplacementCost(inp) == SumSeq(Field(inp.replacement_assets, "cost"))

\* the section 179 budget (dollars) of a request in a tax year
Section179Budget(inp, year) ==
    IF inp.override_section_179_limit # None
    THEN Val(inp.override_section_179_limit)
    ELSE calculate_section_179_limit_with_phaseout(TotalReplacementCost(inp), year)

\* the accumulator after the sales loop: net cash of the sales, total purchases
SalesClosed(res, inp) ==
    [res EXCEPT
        !.net_cash_from_liquidation =
            res.total_sale_proceeds - res.total_transaction_fees
            - res.total_tax_on_sales,
        !.total_replacement_cost = TotalReplacementCost(inp)]

\* End of step 1 and the start of step 2: the section 179 budget
ComputeBudget ==
    /\ pc = "sales"
    /\ idx = Len(inputs.assets_to_sell)
    /\ results' = SalesClosed(results, inputs)
    /\ section_179_budget' = Section179Budget(inputs, tax_year)
    /\ section_179_remaining' = Section179Budget(inputs, tax_year) * 100
    /\ pc' = "replacements"
    /\ idx' = 0
    /\ UNCHANGED <<inputs, tax_year, call, ret>>

\* the calculator the loop body dispatches to for a known method tag
Dispatch(replacement, remaining, inp) ==
    CASE replacement.method = "BONUS" ->
            calculate_bonus_depreciation(replacement.cost,
                replacement.business_use_percent, replacement.in_service_year,
                inp.override_bonus_percent)
      [] replacement.method = "SECTION_179" ->
            calculate_section_179(replacement.cost,
                replacement.business_use_percent, remaining,
                inp.business_income_limit)
      [] replacement.method = "MACRS_GDS" ->
            calculate_macrs_gds(replacement.cost, replacement.business_use_percent,
                replacement.in_service_year, replacement.useful_life)
      [] replacement.method = "MACRS_ADS" ->
            calculate_macrs_ads(replacement.cost, replacement.business_use_percent,
                replacement.in_service_year, replacement.useful_life)

\* faulty variant: an asset with an unknown method tag is dropped without a warning
SkipUnknownMethodSilently(res, index) == res

\* the else branch of the loop body: a warning for the asset, and `continue`
SkipUnknownMethod(res, index) ==
    [res EXCEPT !.warnings = Append(@, [kind |-> "unknown_method", index |-> index])]

\* the accumulator after a known-method asset whose calculation is depr_calc
DetailAdded(res, depr_calc) ==
    [res EXCEPT
        !.total_bonus_depreciation = @ + depr_calc.bonus_depreciation,
        !.total_section_179 = @ + depr_calc.section_179_deduction,
        !.total_macrs_first_year = @ + depr_calc.macrs_first_year,
        !.replacement_details = Append(@, depr_calc)]

\* the body of `for replacement in inputs.replacement_assets` on the accumulator
\* res and the counter remaining: the accumulator and the counter after it
ReplacementProcessed(res, replacement, remaining, index, inp) ==
    IF replacement.method \in KnownMethods
    THEN [results |-> DetailAdded(res, Dispatch(replacement, remaining, inp)),
          section_179_remaining |->
              remaining - Dispatch(replacement, remaining, inp).section_179_deduction]
    ELSE [results |-> SkipUnknownMethod(res, index),
          section_179_remaining |-> remaining]

\* Step 2, one iteration of `for replacement in inputs.replacement_assets`
ProcessReplacement ==
    /\ pc = "replacements"
    /\ idx < Len(inputs.replacement_assets)
    /\ results' = ReplacementProcessed(results, inputs.replacement_assets[idx + 1],
                      section_179_remaining, idx + 1, inputs).results
    /\ section_179_remaining' =
           ReplacementProcessed(results, inputs.replacement_assets[idx + 1],
               section_179_remaining, idx + 1, inputs).section_179_remaining
    /\ idx' = idx + 1
    /\ UNCHANGED <<pc, inputs, tax_year, section_179_budget, call, ret>>

\* faulty variant: the tax savings of the deductions are left out
NetCashFlowWithoutSavings(net_cash_from_liquidation, tax_savings_from_deductions, cash_required_for_replacements) ==
    net_cash_from_liquidation - cash_required_for_replacements

NetCashFlow(net_cash_from_liquidation, tax_savings_from_deductions, cash_required_for_replacements) ==
    net_cash_from_liquidation + tax_savings_from_deductions
    - cash_required_for_replacements

\* faulty variant: the warning is given only when nothing of the budget is left
Section179Exhausted(remaining, budget) == remaining <= 0

\* if section_179_remaining < section_179_budget
Section179LimitReached(remaining, budget) == remaining < budget

\* steps 3 and 4 and the warnings on the accumulator res, for a budget in dollars
\* and a counter in cents
Aggregated(res, inp, budget, remaining) ==
    LET total_first_year_deductions ==
            res.total_bonus_depreciation + res.total_section_179
            + res.total_macrs_first_year
        tax_savings == MulDiv(total_first_year_deductions, inp.marginal_tax_rate, 100)
        net_cash_flow == NetCashFlow(res.net_cash_from_liquidation,
                                     tax_savings, res.total_replacement_cost)
        w179 == IF Section179LimitReached(remaining, budget * 100)
                THEN << [kind |-> "section_179_limit",
                         used |-> budget * 100 - remaining] >>
                ELSE <<>>
        wcash == IF net_cash_flow < 0
                 THEN << [kind |-> "additional_cash", amount |-> Abs(net_cash_flow)] >>
                 ELSE <<>>
    IN  [res EXCEPT
            !.total_first_year_deductions = total_first_year_deductions,
            !.tax_savings_from_deductions = tax_savings,
            !.cash_required_for_replacements = res.total_replacement_cost,
            !.net_cash_flow = net_cash_flow,
            !.warnings = @ \o w179 \o wcash]

\* Steps 3 and 4 and the warnings
Aggregate ==
    /\ pc = "replacements"
    /\ idx = Len(inputs.replacement_assets)
    /\ results' = Aggregated(results, inputs, section_179_budget, section_179_remaining)
    /\ pc' = "done"
    /\ UNCHANGED <<inputs, tax_year, section_179_budget, section_179_remaining,
                   idx, call, ret>>

NextScenario == ProcessSale \/ ComputeBudget \/ ProcessReplacement \/ Aggregate

SpecScenario == InitScenario /\ [][NextScenario]_vars

(***************************************************************************)
(* Claims about the section 179 budget fold                                *)
(***************************************************************************)
\* the section 179 amounts granted so far, in processing order (0 for other methods)
Grants == Field(results.replacement_details, "section_179_deduction")

\* the remaining budget (cents) the k-th processed asset was offered
RemainingBefore(k) == section_179_budget * 100 - SumSeq(SubSeq(Grants, 1, k - 1))

NonNegativeBasesAndBudget ==
    /\ section_179_budget >= 0
    /\ \A k \in 1..Len(results.replacement_details) :
           results.replacement_details[k].depreciable_basis >= 0

\* C1: in calculate_scenario every SECTION_179 asset, in input order, is granted
\* min(depreciable_basis, remaining budget, business_income_limit if given), the
\* shared counter is the budget minus exactly the amounts granted so far, and (for
\* non-negative bases and budget) the counter is never below 0 and the grants never
\* sum to more than the initial budget; a grant depends only on the assets before it.
C1_Section179BudgetFold ==
    pc \in {"replacements", "done"} =>
        /\ \A k \in 1..Len(results.replacement_details) :
               LET d == results.replacement_details[k]
                   by_budget == Min(d.depreciable_basis, RemainingBefore(k))
               IN  IF d.method_used = "SECTION_179"
                   THEN d.section_179_deduction =
                            IF inputs.business_income_limit # None
                            THEN Min(by_budget, Val(inputs.business_income_limit))
                            ELSE by_budget
                   ELSE d.section_179_deduction = 0
        /\ section_179_remaining = section_179_budget * 100 - SumSeq(Grants)
        /\ results.total_section_179 = SumSeq(Grants)
        /\ NonNegativeBasesAndBudget =>
               /\ section_179_remaining >= 0
               /\ SumSeq(Grants) <= section_179_budget * 100

\* C1 witness: a finished scenario in which an earlier SECTION_179 asset received its
\* whole basis and a later one was cut down to what was left of the budget.
C1_Witness ==
    /\ pc = "done"
    /\ section_179_remaining = 0
    /\ \E j, k \in 1..Len(results.replacement_details) :
           /\ j < k
           /\ results.replacement_details[j].method_used = "SECTION_179"
           /\ results.replacement_details[k].method_used = "SECTION_179"
           /\ results.replacement_details[j].section_179_deduction
                  = results.replacement_details[j].depreciable_basis
           /\ results.replacement_details[j].section_179_deduction > 0
           /\ results.replacement_details[k].section_179_deduction > 0
           /\ results.replacement_details[k].section_179_deduction
                  < results.replacement_details[k].depreciable_basis

(***************************************************************************)
(* Pure calculators called on their own: Init draws the arguments of one   *)
(* call, the action returns the result.                                    *)
(***************************************************************************)
\* no calculate_scenario invocation is in progress
NoScenario ==
    /\ pc = "idle"
    /\ inputs = <<>>
    /\ tax_year = 0
    /\ results = <<>>
    /\ section_179_budget = 0
    /\ section_179_remaining = 0
    /\ idx = 0

scenarioVars == <<pc, inputs, tax_year, results, section_179_budget,
                  section_179_remaining, idx>>

\* ---- TaxPolicyService.calculate_section_179_limit_with_phaseout ----
PhaseoutYears == {2023, 2024, 2025, 2026}

\* total purchases (cents) relative to the phaseout threshold of the year's policy
PhaseoutOffsets(limit) ==
    {-100000000, -100, -1, 0, 1, 50, 99, 100, 101, 150, 200, 100000,
     limit * 100 - 100, limit * 100 - 50, limit * 100 - 1, limit * 100,
     limit * 100 + 1, limit * 100 + 100, limit * 100 + 100000}

PhaseoutCalls ==
    { [op |-> "calculate_section_179_limit_with_phaseout",
       total_equipment_purchases |->
           get_policy_for_year(y).section_179_phaseout_threshold * 100 + d,
       year |-> y] :
      y \in PhaseoutYears,
      d \in UNION { PhaseoutOffsets(get_policy_for_year(z).section_179_limit) :
                    z \in PhaseoutYears } }

InitTax ==
    /\ NoScenario
    /\ call \in PhaseoutCalls
    /\ ret = None

ReturnSection179Limit ==
    /\ call.op = "calculate_section_179_limit_with_phaseout"
    /\ ret = None
    /\ ret' = Some(calculate_section_179_limit_with_phaseout(
                       call.total_equipment_purchases, call.year))
    /\ UNCHANGED <<call, scenarioVars>>

NextTax == ReturnSection179Limit

SpecTax == InitTax /\ [][NextTax]_vars

PhaseoutReturned ==
    /\ call.op = "calculate_section_179_limit_with_phaseout"
    /\ ret # None

\* the exact (untruncated) phased-out limit in cents: max(0, limit - (purchases - threshold))
ExactPhaseoutCents(total, year) ==
    LET policy == get_policy_for_year(year)
    IN  Max(0, policy.section_179_limit * 100
               - (total - policy.section_179_phaseout_threshold * 100))

\* C7 (as claimed): the function returns the full limit up to and including the
\* threshold, max(0, limit - (purchases - threshold)) above it, 0 at threshold + limit,
\* and is never negative and non-increasing in total purchases.
C7_PhaseoutAsClaimed ==
    PhaseoutReturned =>
        LET policy == get_policy_for_year(call.year)
            total == call.total_equipment_purchases
        IN  /\ total <= policy.section_179_phaseout_threshold * 100
                   => Val(ret) = policy.section_179_limit
            /\ total > policy.section_179_phaseout_threshold * 100
                   => Val(ret) * 100 = ExactPhaseoutCents(total, call.year)
            /\ Val(ret) >= 0

\* C7 (amended): full limit up to and including the threshold; above it the excess
\* is truncated to whole dollars before it is subtracted, so the result is the exact
\* value max(0, limit - (purchases - threshold)) rounded up to a whole dollar (equal
\* to it when the excess is a whole number of dollars); it is 0 at threshold + limit,
\* never negative, and non-increasing in total purchases.
C7_PhaseoutTruncatedExcess ==
    PhaseoutReturned =>
        LET policy == get_policy_for_year(call.year)
            total == call.total_equipment_purchases
            threshold == policy.section_179_phaseout_threshold * 100
            exact == ExactPhaseoutCents(total, call.year)
        IN  /\ total <= threshold => Val(ret) = policy.section_179_limit
            /\ total > threshold =>
                   /\ exact <= Val(ret) * 100
                   /\ Val(ret) * 100 < exact + 100
            /\ total = threshold + policy.section_179_limit * 100 => Val(ret) = 0
            /\ Val(ret) >= 0
            /\ \A c \in PhaseoutCalls :
                   (c.year = call.year /\ c.total_equipment_purchases >= total)
                       => calculate_section_179_limit_with_phaseout(
                              c.total_equipment_purchases, c.year) <= Val(ret)

\* C7 witness: purchases a fraction of a dollar above the threshold returned a limit
\* above the exact phased-out value.
C7_Witness ==
    /\ PhaseoutReturned
    /\ call.total_equipment_purchases
           > get_policy_for_year(call.year).section_179_phaseout_threshold * 100
    /\ Val(ret) * 100 > ExactPhaseoutCents(call.total_equipment_purchases, call.year)
    /\ Val(ret) > 0

\* ---- BasisRecaptureService.calculate_accumulated_depreciation_estimate ----
\* the simplified 5-year MACRS schedule, in hundredths of a percent
EstimateSchedule == <<2000, 3200, 1920, 1152, 1152, 576>>

\* schedule[:full_years]: a negative bound counts back from the end of the list
SliceTo(schedule, full_years) ==
    SubSeq(schedule, 1, IF full_years >= 0 THEN Min(full_years, Len(schedule))
                        ELSE Max(0, Len(schedule) + full_years))

\* min(original_cost, (original_cost / useful_life) * years_elapsed) with
\* years_elapsed = days / 365.25; a negative product keeps its sign
StraightLineEstimate(original_cost, useful_life, days) ==
    Min(original_cost,
        IF days >= 0 THEN MulDiv(original_cost, days * 4, useful_life * 1461)
        ELSE -CeilMulDiv(original_cost, (-days) * 4, useful_life * 1461))

\* amounts in cents; now is datetime.now()
calculate_accumulated_depreciation_estimate(original_cost, purchase_date, useful_life, method, now) ==
    LET days == DaysBetween(purchase_date, now)
        full_years == Min(TruncDiv(days * 4, 1461), Len(EstimateSchedule))
    IN  IF method = "MACRS_GDS" /\ useful_life = 5
        THEN Some(MulDiv(original_cost,
                         SumSeq(SliceTo(EstimateSchedule, full_years)), 10000))
        ELSE IF useful_life = 0 THEN Raised("ZeroDivisionError")
        ELSE Some(StraightLineEstimate(original_cost, useful_life, days))

EstimatePurchaseDates ==
    { Date(2024, 6, 15), Date(2023, 12, 15), Date(2023, 6, 15), Date(2019, 6, 15),
      Date(2017, 1, 1), Date(2014, 1, 1), Date(2024, 12, 15), Date(2026, 6, 15),
      Date(2027, 1, 1), Date(2031, 1, 1) }

EstimateCalls ==
    [op : {"calculate_accumulated_depreciation_estimate"},
     original_cost : {0, 100000, 5000000},
     purchase_date : EstimatePurchaseDates,
     useful_life : {0, 5, 7},
     method : {"MACRS_GDS", "STRAIGHT_LINE", "MACRS_ADS"},
     now : {Date(2024, 6, 15)}]

\* ---- BasisRecaptureService.calculate_sale_tax_impact ----
SaleCalls ==
    [op : {"calculate_sale_tax_impact"},
     original_cost : {0, 100000, 5000000},
     accumulated_depreciation : {-50000, 0, 100000, 4000000, 6000000},
     sale_price : {0, 50000, 100000, 5000000, 6000000},
     transaction_fees : {0, 100000},
     ordinary_tax_rate : {24},
     capital_gains_rate : {15}]

InitSale ==
    /\ NoScenario
    /\ call \in SaleCalls \cup EstimateCalls
    /\ ret = None

ReturnSaleTaxImpact ==
    /\ call.op = "calculate_sale_tax_impact"
    /\ ret = None
    /\ ret' = Some(calculate_sale_tax_impact(
                       call.original_cost, call.accumulated_depreciation,
                       call.sale_price, call.transaction_fees,
                       call.ordinary_tax_rate, call.capital_gains_rate))
    /\ UNCHANGED <<call, scenarioVars>>

ReturnDepreciationEstimate ==
    /\ call.op = "calculate_accumulated_depreciation_estimate"
    /\ ret = None
    /\ ret' = calculate_accumulated_depreciation_estimate(
                  call.original_cost, call.purchase_date, call.useful_life,
                  call.method, call.now)
    /\ UNCHANGED <<call, scenarioVars>>

NextSale == ReturnSaleTaxImpact \/ ReturnDepreciationEstimate

SpecSale == InitSale /\ [][NextSale]_vars

\* C6: for every input, recapture = clamp(total_gain, 0, accumulated_depreciation)
\* and section 1231 gain = max(0, total_gain - recapture); recapture + section 1231
\* gain = total_gain whenever total_gain >= 0, and both are 0 whenever total_gain < 0.
C6_RecaptureRoundTrip ==
    (call.op = "calculate_sale_tax_impact" /\ ret # None) =>
        LET r == Val(ret)
        IN  /\ r.total_gain = call.sale_price
                                - (call.original_cost - call.accumulated_depreciation)
            /\ r.section_1245_recapture
                   = Min(Max(r.total_gain, 0), call.accumulated_depreciation)
            /\ r.section_1231_gain = Max(0, r.total_gain - r.section_1245_recapture)
            /\ r.total_gain >= 0
                   => r.section_1245_recapture + r.section_1231_gain = r.total_gain
            /\ r.total_gain < 0
                   => (r.section_1245_recapture = 0 /\ r.section_1231_gain = 0)

\* ---- LoanInformationService.generate_amortization_schedule / calculate_loan_payoff ----
\* datetime.now(), to the day
LoanNow == Date(2024, 6, 15)

LoanStartDates == {Date(2024, 1, 1), Date(2024, 1, 31), None, Malformed}

LoanEndDates == {None, Date(2024, 7, 1), Malformed}

\* loans stored by LoanManager: monthly_payment is recomputed from amount, rate and
\* term; the dates are the caller's
ManagerLoans ==
    { Loan(t[1], t[2], t[3], calculate_monthly_payment(t[1], t[2], t[3]), s, e) :
      t \in { <<4095000, 1200, 1>>, <<1000000, 600, 1>>, <<1200000, 0, 1>>,
              <<101250, 0, 1>>, <<1200000, 0, 0>> },
      s \in LoanStartDates, e \in LoanEndDates }

\* loans deserialized from a request body: monthly_payment is the caller's, 0.0 when
\* left out
RequestLoans ==
    { Loan(t[1], t[2], t[3], t[4], s, e) :
      t \in { <<10000000, 12, 1, 888488>>, <<1000000, 12, 1, 100000>>,
              <<101250, 12, 1, 0>> },
      s \in LoanStartDates, e \in LoanEndDates }

Loans == ManagerLoans \cup RequestLoans

\* loans handed to LoanManager.create_loan / update_loan: the caller's monthly_payment
\* is overwritten; a zero term at a nonzero rate makes the payment formula divide by 0
LoanRequests ==
    { Loan(t[1], t[2], t[3], 0, s, e) :
      t \in { <<4095000, 1200, 1>>, <<1000000, 600, 1>>, <<1200000, 0, 1>>,
              <<1200000, 0, 0>>, <<1000000, 600, 0>> },
      s \in LoanStartDates, e \in LoanEndDates }

PayoffDates == {Date(2024, 1, 1), Date(2024, 1, 30), Date(2024, 1, 31),
                Date(2024, 3, 15), Date(2024, 9, 1), Date(2025, 6, 1), Malformed}

PenaltyRates == {0, 2}

LoanCalls ==
    { [op |-> "generate_amortization_schedule", loan |-> l, now |-> LoanNow] :
      l \in Loans }
    \cup
    { [op |-> "calculate_loan_payoff", loan |-> l, payoff_date |-> d,
       prepayment_penalty_rate |-> r, now |-> LoanNow] :
      l \in Loans, d \in PayoffDates, r \in PenaltyRates }
    \cup
    { [op |-> "generate_loan_schedule", loan |-> l, now |-> LoanNow] : l \in Loans }
    \cup
    { [op |-> o, loan |-> l, now |-> LoanNow] :
      o \in {"create_loan", "update_loan"}, l \in LoanRequests }

InitLoan ==
    /\ NoScenario
    /\ call \in LoanCalls
    /\ ret = None

ReturnAmortizationSchedule ==
    /\ call.op = "generate_amortization_schedule"
    /\ ret = None
    /\ ret' = Some(generate_amortization_schedule(call.loan, call.now))
    /\ UNCHANGED <<call, scenarioVars>>

ReturnLoanPayoff ==
    /\ call.op = "calculate_loan_payoff"
    /\ ret = None
    /\ ret' = Some(calculate_loan_payoff(call.loan, call.payoff_date,
                                         call.prepayment_penalty_rate, call.now))
    /\ UNCHANGED <<call, scenarioVars>>

ReturnLoanSchedule ==
    /\ call.op = "generate_loan_schedule"
    /\ ret = None
    /\ ret' = Some(generate_loan_schedule(call.loan, call.now))
    /\ UNCHANGED <<call, scenarioVars>>

ReturnCreateLoan ==
    /\ call.op = "create_loan"
    /\ ret = None
    /\ ret' = create_loan(call.loan, call.now)
    /\ UNCHANGED <<call, scenarioVars>>

ReturnUpdateLoan ==
    /\ call.op = "update_loan"
    /\ ret = None
    /\ \E updated, deleted \in BOOLEAN :
           ret' = update_loan(call.loan, updated, deleted, call.now)
    /\ UNCHANGED <<call, scenarioVars>>

NextLoan ==
    \/ ReturnAmortizationSchedule
    \/ ReturnLoanPayoff
    \/ ReturnLoanSchedule
    \/ ReturnCreateLoan
    \/ ReturnUpdateLoan

SpecLoan == InitLoan /\ [][NextLoan]_vars

ScheduleReturned ==
    /\ call.op = "generate_amortization_schedule"
    /\ ret # None

PayoffReturned ==
    /\ call.op = "calculate_loan_payoff"
    /\ ret # None

\* C2: for any loan the remaining_balance of the schedule lines is non-increasing
\* from one line to the next and never negative.
C2_BalanceNonIncreasing ==
    ScheduleReturned =>
        \A i \in 1..Len(Val(ret)) :
            /\ Val(ret)[i].remaining_balance >= 0
            /\ i > 1 => Val(ret)[i].remaining_balance <= Val(ret)[i - 1].remaining_balance

\* C3: every generated schedule fully amortizes the loan: the principal payments
\* sum to the original principal within 1.0 and the last line's remaining balance
\* is at most 0.01.
C3_FullyAmortized ==
    ScheduleReturned =>
        LET schedule == Val(ret)
        IN  /\ Abs(SumSeq(Field(schedule, "principal_payment")) - call.loan.loan_amount)
                   <= 1000
            /\ Len(schedule) > 0 => schedule[Len(schedule)].remaining_balance <= 10

\* C4: on every line of every schedule payment_amount is within 0.02 of
\* principal_payment + interest_payment, the capped final payment included, after
\* each field has been rounded to 2 decimals on its own.
C4_PaymentIsPrincipalPlusInterest ==
    ScheduleReturned =>
        \A i \in 1..Len(Val(ret)) :
            Abs(Val(ret)[i].payment_amount
                - (Val(ret)[i].principal_payment + Val(ret)[i].interest_payment)) < 20

\* a schedule whose last payment is capped below monthly_payment and one of whose
\* lines shows a rounding difference between the three fields
C4_Witness ==
    /\ ScheduleReturned
    /\ Len(Val(ret)) > 1
    /\ Val(ret)[Len(Val(ret))].payment_amount + 20 < Round2(call.loan.monthly_payment)
    /\ Val(ret)[Len(Val(ret))].remaining_balance = 0
    /\ \E i \in 1..Len(Val(ret)) :
           Val(ret)[i].payment_amount
               # Val(ret)[i].principal_payment + Val(ret)[i].interest_payment

\* C8: a payoff on the loan's own start date reports the original principal as
\* remaining balance and no interest and no principal paid.
C8_PayoffAtStartDate ==
    (/\ PayoffReturned
     /\ IsValidDateString(call.loan.loan_start_date)
     /\ call.payoff_date = call.loan.loan_start_date)
    => /\ Val(ret).remaining_balance = Round2(call.loan.loan_amount)
       /\ Val(ret).total_interest_paid = 0
       /\ Val(ret).total_principal_paid = 0

\* the balance of the last schedule line dated on or before the target date, the
\* original principal when there is none
RECURSIVE BalanceAsOf(_, _, _)
BalanceAsOf(schedule, target_date, principal) ==
    IF schedule = <<>> \/ ~DateLE(schedule[1].payment_date, target_date)
    THEN principal
    ELSE BalanceAsOf(Tail(schedule), target_date, schedule[1].remaining_balance)

\* C9: the payoff reports the balance of the last line on or before the payoff
\* date, the penalty balance x rate / 100, and a total that is exactly the reported
\* balance plus the reported penalty.
C9_PayoffTotals ==
    PayoffReturned =>
        LET balance == BalanceAsOf(generate_amortization_schedule(call.loan, call.now),
                                   ParseOr(call.payoff_date, call.now),
                                   call.loan.loan_amount)
        IN  /\ Val(ret).remaining_balance = Round2(balance)
            /\ Val(ret).prepayment_penalty
                   = 10 * RoundHalfEven(balance * call.prepayment_penalty_rate, 1000)
            /\ Val(ret).total_payoff_amount
                   = Val(ret).remaining_balance + Val(ret).prepayment_penalty

\* C10: the payoff report carries an interest_savings value, positive when the loan
\* is paid off before the end of its schedule.
C10_InterestSavingsReported ==
    PayoffReturned =>
        LET schedule == generate_amortization_schedule(call.loan, call.now)
            early == /\ Len(schedule) > 0
                     /\ ~DateLE(schedule[Len(schedule)].payment_date,
                                ParseOr(call.payoff_date, call.now))
        IN  /\ "interest_savings" \in DOMAIN Val(ret)
            /\ early => Val(ret).interest_savings > 0

\* ---- AssetDepreciationService schedules ----
BookValues == {0, 24000, 120000}

SalvageValues == {0, 12000, 24000, 240000}

UsefulLives == {0, 1, 2}

\* depreciation_rate in percent
DepreciationRates == {0, 20, 240}

TotalUnits == {0, 24, 36}

UnitsPerYear == {0, 7, 12, 24}

DepreciationCalls ==
    { [op |-> "straight_line_depreciation", initial_cost |-> c, salvage_value |-> v,
       useful_life |-> u, now |-> LoanNow] :
      c \in BookValues, v \in SalvageValues, u \in UsefulLives }
    \cup
    { [op |-> "declining_balance_depreciation", initial_cost |-> c,
       salvage_value |-> v, useful_life |-> u, rate |-> <<r, 100>>, now |-> LoanNow] :
      c \in BookValues, v \in SalvageValues, u \in UsefulLives,
      r \in DepreciationRates }
    \cup
    { [op |-> "double_declining_balance_depreciation", initial_cost |-> c,
       salvage_value |-> v, useful_life |-> u, now |-> LoanNow] :
      c \in BookValues, v \in SalvageValues, u \in UsefulLives }
    \cup
    { [op |-> "units_of_production_depreciation", initial_cost |-> c,
       salvage_value |-> v, total_units |-> t, units_produced_per_year |-> u,
       now |-> LoanNow] :
      c \in BookValues, v \in SalvageValues, t \in TotalUnits, u \in UnitsPerYear }

InitDepreciation ==
    /\ NoScenario
    /\ call \in DepreciationCalls
    /\ ret = None

ReturnStraightLine ==
    /\ call.op = "straight_line_depreciation"
    /\ ret = None
    /\ ret' = straight_line_depreciation(call.initial_cost, call.salvage_value,
                                         call.useful_life, call.now)
    /\ UNCHANGED <<call, scenarioVars>>

ReturnDecliningBalance ==
    /\ call.op = "declining_balance_depreciation"
    /\ ret = None
    /\ ret' = declining_balance_depreciation(call.initial_cost, call.salvage_value,
                                             call.useful_life, call.rate, call.now)
    /\ UNCHANGED <<call, scenarioVars>>

ReturnDoubleDecliningBalance ==
    /\ call.op = "double_declining_balance_depreciation"
    /\ ret = None
    /\ ret' = double_declining_balance_depreciation(call.initial_cost,
                   call.salvage_value, call.useful_life, call.now)
    /\ UNCHANGED <<call, scenarioVars>>

ReturnUnitsOfProduction ==
    /\ call.op = "units_of_production_depreciation"
    /\ ret = None
    /\ ret' = units_of_production_depreciation(call.initial_cost, call.salvage_value,
                   call.total_units, call.units_produced_per_year, call.now)
    /\ UNCHANGED <<call, scenarioVars>>

NextDepreciation ==
    \/ ReturnStraightLine
    \/ ReturnDecliningBalance
    \/ ReturnDoubleDecliningBalance
    \/ ReturnUnitsOfProduction

SpecDepreciation == InitDepreciation /\ [][NextDepreciation]_vars

\* the call returned a schedule (it did not raise)
DepreciationScheduleReturned ==
    /\ call.op \in {"straight_line_depreciation", "declining_balance_depreciation",
                    "double_declining_balance_depreciation"}
    /\ Len(ret) = 1

\* C5: in every straight-line, declining-balance and double-declining-balance
\* schedule new_book_value is non-increasing from entry to entry, never above the
\* initial cost and never below salvage_value.
C5_BookValueNonIncreasing ==
    DepreciationScheduleReturned =>
        \A i \in 1..Len(Val(ret)) :
            /\ Val(ret)[i].new_book_value <= call.initial_cost
            /\ Val(ret)[i].new_book_value >= call.salvage_value
            /\ i > 1 => Val(ret)[i].new_book_value <= Val(ret)[i - 1].new_book_value

\* ---- LoanImpactService ----
\* loans of the impact calls: every loan shape, with a start date and the computed
\* end date
ImpactLoans ==
    {l \in Loans : l.loan_start_date = Date(2024, 1, 1) /\ l.loan_end_date = None}

OptionalOf(S) == {None} \cup {Some(x) : x \in S}

SalePrices == {0, 500000, 5000000}

TransactionFees == {0, 100000}

\* the two dicts _generate_recommendation reads, reduced to the fields it reads
RecommendationInputs ==
    { << [net_proceeds |-> n],
         [monthly_payment_comparison |-> [monthly_change |-> m],
          interest_cost_comparison |-> [interest_cost_change |-> i],
          cash_required |-> c] >> :
      n \in {-10, 0, 10}, m \in {-10, 0, 10}, i \in {-10, 0, 10}, c \in {-10, 0, 10} }

ImpactCalls ==
    { [op |-> "calculate_liquidation_impact", asset_sale_price |-> p,
       existing_loan |-> l, liquidation_date |-> d, transaction_fees |-> f,
       prepayment_penalty_rate |-> r, now |-> LoanNow] :
      p \in SalePrices, l \in OptionalOf(Loans), d \in PayoffDates,
      f \in TransactionFees, r \in PenaltyRates }
    \cup
    { [op |-> "calculate_total_scenario_impact", asset_sale_price |-> p,
       liquidation_date |-> d, existing_loan |-> l, replacement_asset_price |-> q,
       replacement_loan |-> n, transaction_fees |-> f,
       prepayment_penalty_rate |-> 0, now |-> LoanNow] :
      p \in SalePrices, d \in {Date(2024, 3, 15), Date(2025, 6, 1)},
      l \in OptionalOf(ImpactLoans), q \in SalePrices,
      n \in OptionalOf(ImpactLoans), f \in TransactionFees }
    \cup
    { [op |-> "generate_recommendation", liquidation |-> x[1], replacement |-> x[2]] :
      x \in RecommendationInputs }

InitImpact ==
    /\ NoScenario
    /\ call \in ImpactCalls
    /\ ret = None

ReturnLiquidationImpact ==
    /\ call.op = "calculate_liquidation_impact"
    /\ ret = None
    /\ ret' = Some(calculate_liquidation_impact(call.asset_sale_price,
                       call.existing_loan, call.liquidation_date,
                       call.transaction_fees, call.prepayment_penalty_rate, call.now))
    /\ UNCHANGED <<call, scenarioVars>>

ReturnTotalScenarioImpact ==
    /\ call.op = "calculate_total_scenario_impact"
    /\ ret = None
    /\ ret' = Some(calculate_total_scenario_impact(call.asset_sale_price,
                       call.liquidation_date, call.existing_loan,
                       call.replacement_asset_price, call.replacement_loan,
                       call.transaction_fees, call.prepayment_penalty_rate, call.now))
    /\ UNCHANGED <<call, scenarioVars>>

ReturnRecommendation ==
    /\ call.op = "generate_recommendation"
    /\ ret = None
    /\ ret' = Some(generate_recommendation(call.liquidation, call.replacement))
    /\ UNCHANGED <<call, scenarioVars>>

NextImpact ==
    \/ ReturnLiquidationImpact
    \/ ReturnTotalScenarioImpact
    \/ ReturnRecommendation

SpecImpact == InitImpact /\ [][NextImpact]_vars

LiquidationReturned ==
    /\ call.op = "calculate_liquidation_impact"
    /\ ret # None

\* the liquidation date falls before the date of the last line of the loan's schedule
PrecedesLastPayment(loan, liquidation_date, now) ==
    LET schedule == generate_amortization_schedule(loan, now)
    IN  /\ Len(schedule) > 0
        /\ ~DateLE(schedule[Len(schedule)].payment_date, ParseOr(liquidation_date, now))

\* interest_savings is the interest of the full schedule less the interest paid
\* through the payoff date, and is never negative
SavingsAsComputed ==
    LET loan == Val(call.existing_loan)
        paid == calculate_loan_payoff(loan, call.liquidation_date,
                                      call.prepayment_penalty_rate, call.now)
    IN  /\ Val(ret).loan_payoff.interest_savings
               = TotalInterest(loan, call.now) - paid.total_interest_paid
        /\ Val(ret).loan_payoff.interest_paid_to_date = paid.total_interest_paid
        /\ Val(ret).loan_payoff.interest_savings >= 0

C12_NetProceeds ==
    LiquidationReturned =>
        /\ Val(ret).net_proceeds
               = Val(ret).asset_sale_price - Val(ret).transaction_fees
                 - Val(ret).loan_payoff.total_payoff_amount
        /\ Val(ret).asset_sale_price = call.asset_sale_price
        /\ Val(ret).transaction_fees = call.transaction_fees
        /\ Val(ret).loan_payoff.has_loan = (call.existing_loan # None)
        /\ call.existing_loan = None
               => /\ Val(ret).loan_payoff.total_payoff_amount = 0
                  /\ Val(ret).loan_payoff.remaining_balance = 0
                  /\ Val(ret).loan_payoff.prepayment_penalty = 0
        /\ call.existing_loan # None
               => Val(ret).loan_payoff.total_payoff_amount
                      = calculate_loan_payoff(Val(call.existing_loan),
                            call.liquidation_date, call.prepayment_penalty_rate,
                            call.now).total_payoff_amount

\* a sale without a loan, with fees taken off the price
C12_Witness ==
    /\ LiquidationReturned
    /\ call.existing_loan = None
    /\ call.transaction_fees > 0
    /\ Val(ret).net_proceeds > 0
    /\ Val(ret).net_proceeds < call.asset_sale_price

\* the liquidation and replacement dicts a returned recommendation was made from
RecommendationSource ==
    IF call.op = "generate_recommendation"
    THEN <<call.liquidation, call.replacement>>
    ELSE <<Val(ret).liquidation_details, Val(ret).replacement_details>>

RecommendationMade ==
    IF call.op = "generate_recommendation" THEN Val(ret) ELSE Val(ret).recommendation

RecommendationReturned ==
    /\ call.op \in {"generate_recommendation", "calculate_total_scenario_impact"}
    /\ ret # None

\* the positive and the negative score the four signals add up to: net proceeds
\* (weight 1), monthly payment change (1), interest cost change (2), cash required (1)
ClaimedScores ==
    LET net == RecommendationSource[1].net_proceeds
        monthly == RecommendationSource[2].monthly_payment_comparison.monthly_change
        interest == RecommendationSource[2].interest_cost_comparison.interest_cost_change
        cash == RecommendationSource[2].cash_required
    IN  [positive |-> (IF net > 0 THEN 1 ELSE 0) + (IF monthly < 0 THEN 1 ELSE 0)
                      + (IF interest < 0 THEN 2 ELSE 0) + (IF cash <= 0 THEN 1 ELSE 0),
         negative |-> (IF net > 0 THEN 0 ELSE 1) + (IF monthly > 0 THEN 1 ELSE 0)
                      + (IF interest > 0 THEN 2 ELSE 0) + (IF cash <= 0 THEN 0 ELSE 1),
         scored |-> 2 + (IF monthly # 0 THEN 1 ELSE 0) + (IF interest # 0 THEN 1 ELSE 0)]

Favorable == "Favorable - This scenario shows strong financial benefits"

ModeratelyFavorable == "Moderately Favorable - This scenario has some financial benefits"

Neutral == "Neutral - This scenario has balanced pros and cons"

Unfavorable == "Unfavorable - This scenario may have negative financial impacts"

\* C13: the recommendation's scores are the sums of the four weighted signals; the
\* label is Favorable iff positive > 1.5 x negative, else Moderately Favorable iff
\* positive > negative, else Neutral iff positive = negative, else Unfavorable;
\* key_factors has one entry per signal that scored.
C13_RecommendationLabel ==
    RecommendationReturned =>
        LET rec == RecommendationMade
            pos == ClaimedScores.positive
            neg == ClaimedScores.negative
        IN  /\ rec.positive_score = pos
            /\ rec.negative_score = neg
            /\ rec.recommendation \in {Favorable, ModeratelyFavorable, Neutral, Unfavorable}
            /\ rec.recommendation = Favorable <=> 2 * pos > 3 * neg
            /\ rec.recommendation = ModeratelyFavorable
                   <=> (~(2 * pos > 3 * neg) /\ pos > neg)
            /\ rec.recommendation = Neutral <=> pos = neg
            /\ rec.recommendation = Unfavorable <=> pos < neg
            /\ Len(rec.key_factors) = ClaimedScores.scored

\* a recommendation where the interest signal decided between two labels: positive
\* exceeds negative but not 1.5 times, with all four signals scoring
C13_Witness ==
    /\ RecommendationReturned
    /\ RecommendationMade.recommendation = ModeratelyFavorable
    /\ RecommendationMade.positive_score = 3
    /\ RecommendationMade.negative_score = 2
    /\ Len(RecommendationMade.key_factors) = 4

\* ---- DepreciationCalculationService calculators ----
CalculatorCosts == {0, 100000, 500000}

BusinessUsePercents == {-10, 0, 50, 100, 150}

InServiceYears == {2024, 2025}

OverrideBonusPercents == {None, Some(0), Some(100), Some(150)}

Section179Available == {0, 40000, 60000, 1000000}

BusinessIncomeLimits == {None, Some(50000), Some(-10000)}

CalculatorUsefulLives == {-1, 0, 3, 5, 7}

CalculatorCalls ==
    { [op |-> "calculate_bonus_depreciation", cost |-> c, business_use_percent |-> b,
       in_service_year |-> y, override_bonus_percent |-> o] :
      c \in CalculatorCosts, b \in BusinessUsePercents, y \in InServiceYears,
      o \in OverrideBonusPercents }
    \cup
    { [op |-> "calculate_section_179", cost |-> c, business_use_percent |-> b,
       section_179_available |-> a, business_income_limit |-> l] :
      c \in CalculatorCosts, b \in BusinessUsePercents, a \in Section179Available,
      l \in BusinessIncomeLimits }
    \cup
    { [op |-> m, cost |-> c, business_use_percent |-> b, in_service_year |-> y,
       useful_life |-> u] :
      m \in {"calculate_macrs_gds", "calculate_macrs_ads"}, c \in CalculatorCosts,
      b \in BusinessUsePercents, y \in InServiceYears, u \in CalculatorUsefulLives }
    \cup
    { [op |-> "calculate_optimal_method", cost |-> c, business_use_percent |-> b,
       in_service_year |-> y, section_179_available |-> a,
       business_income_limit |-> l, useful_life |-> u] :
      c \in CalculatorCosts, b \in BusinessUsePercents, y \in InServiceYears,
      a \in Section179Available, l \in BusinessIncomeLimits,
      u \in CalculatorUsefulLives }

InitCalculator ==
    /\ NoScenario
    /\ call \in CalculatorCalls
    /\ ret = None

ReturnBonusDepreciation ==
    /\ call.op = "calculate_bonus_depreciation"
    /\ ret = None
    /\ ret' = Some(calculate_bonus_depreciation(call.cost, call.business_use_percent,
                       call.in_service_year, call.override_bonus_percent))
    /\ UNCHANGED <<call, scenarioVars>>

ReturnSection179 ==
    /\ call.op = "calculate_section_179"
    /\ ret = None
    /\ ret' = Some(calculate_section_179(call.cost, call.business_use_percent,
                       call.section_179_available, call.business_income_limit))
    /\ UNCHANGED <<call, scenarioVars>>

ReturnMacrsGds ==
    /\ call.op = "calculate_macrs_gds"
    /\ ret = None
    /\ ret' = Some(calculate_macrs_gds(call.cost, call.business_use_percent,
                       call.in_service_year, call.useful_life))
    /\ UNCHANGED <<call, scenarioVars>>

\* (1.0 / useful_life) raises ZeroDivisionError for useful_life = 0
ReturnMacrsAds ==
    /\ call.op = "calculate_macrs_ads"
    /\ ret = None
    /\ ret' = IF call.useful_life = 0
              THEN Raised("ZeroDivisionError")
              ELSE Some(calculate_macrs_ads(call.cost, call.business_use_percent,
                            call.in_service_year, call.useful_life))
    /\ UNCHANGED <<call, scenarioVars>>

ReturnOptimalMethod ==
    /\ call.op = "calculate_optimal_method"
    /\ ret = None
    /\ ret' = Some(calculate_optimal_method(call.cost, call.business_use_percent,
                       call.in_service_year, call.section_179_available,
                       call.business_income_limit, call.useful_life))
    /\ UNCHANGED <<call, scenarioVars>>

NextCalculator ==
    \/ ReturnBonusDepreciation
    \/ ReturnSection179
    \/ ReturnMacrsGds
    \/ ReturnMacrsAds
    \/ ReturnOptimalMethod

SpecCalculator == InitCalculator /\ [][NextCalculator]_vars

\* the three candidates of the returned optimal method, in the order computed
OptimalCandidates ==
    << calculate_section_179(call.cost, call.business_use_percent,
                             call.section_179_available, call.business_income_limit),
       calculate_bonus_depreciation(call.cost, call.business_use_percent,
                                    call.in_service_year, None),
       calculate_macrs_gds(call.cost, call.business_use_percent, call.in_service_year,
                           call.useful_life) >>

OptimalReturned ==
    /\ call.op = "calculate_optimal_method"
    /\ Len(ret) = 1

\* C14: calculate_optimal_method returns the candidate among section 179, bonus and
\* MACRS GDS with the largest total_first_year_deduction, on a tie the earliest in
\* that order; its deduction is never smaller than that of any candidate.
C14_OptimalMethod ==
    OptimalReturned =>
        /\ \A j \in 1..3 :
               Val(ret).total_first_year_deduction
                   >= OptimalCandidates[j].total_first_year_deduction
        /\ \E k \in 1..3 :
               /\ Val(ret) = OptimalCandidates[k]
               /\ \A j \in 1..(k - 1) :
                      OptimalCandidates[j].total_first_year_deduction
                          < OptimalCandidates[k].total_first_year_deduction

\* section 179 and bonus tie on a positive deduction above MACRS, and section 179
\* is returned
C14_Witness ==
    /\ OptimalReturned
    /\ OptimalCandidates[1].total_first_year_deduction
           = OptimalCandidates[2].total_first_year_deduction
    /\ OptimalCandidates[2].total_first_year_deduction
           > OptimalCandidates[3].total_first_year_deduction
    /\ OptimalCandidates[3].total_first_year_deduction > 0
    /\ Val(ret).method_used = "SECTION_179"

CalculationReturned ==
    /\ call.op \in {"calculate_bonus_depreciation", "calculate_section_179",
                    "calculate_macrs_gds", "calculate_macrs_ads"}
    /\ Len(ret) = 1

\* C15: every DepreciationCalculation the four calculators return has
\* remaining_basis = depreciable_basis - total_first_year_deduction >= 0, the total
\* being the sum of its bonus, section 179 and MACRS fields.
C15_RemainingBasis ==
    CalculationReturned =>
        /\ Val(ret).total_first_year_deduction
               = Val(ret).bonus_depreciation + Val(ret).section_179_deduction
                 + Val(ret).macrs_first_year
        /\ Val(ret).remaining_basis
               = Val(ret).depreciable_basis - Val(ret).total_first_year_deduction
        /\ Val(ret).remaining_basis >= 0

\* the call has a parameter the specification calls invalid: a zero useful life or
\* unit divisor for the schedule generators, useful_life <= 0 or business_use_percent
\* outside [0, 100] for the accelerated calculators
InvalidParameters ==
    \/ /\ call.op \in {"straight_line_depreciation", "declining_balance_depreciation",
                       "double_declining_balance_depreciation"}
       /\ call.useful_life = 0
    \/ /\ call.op = "units_of_production_depreciation"
       /\ (call.total_units = 0 \/ call.units_produced_per_year = 0)
    \/ /\ call.op \in {"calculate_macrs_gds", "calculate_macrs_ads",
                       "calculate_optimal_method"}
       /\ call.useful_life <= 0
    \/ /\ call.op \in {"calculate_bonus_depreciation", "calculate_section_179",
                       "calculate_macrs_gds", "calculate_macrs_ads",
                       "calculate_optimal_method"}
       /\ (call.business_use_percent < 0 \/ call.business_use_percent > 100)

\* C16: a call with invalid parameters ends in a typed InvalidParameter error, not
\* in another exception and not in a computed result.
C16_InvalidParameterRejected ==
    (InvalidParameters /\ ret # None) =>
        (Len(ret) = 2 /\ ret[1] = "InvalidParameter")

\* ---- calculate_scenario: warnings and cash flow ----
\* the warnings of one kind recorded so far
WarningsOfKind(kind) == SelectSeq(results.warnings, LAMBDA w : w.kind = kind)

\* the positions, among the first n replacement assets, of those with an unknown method
UnknownAmong(n) ==
    {k \in 1..n : inputs.replacement_assets[k].method \notin KnownMethods}

\* the number of replacement assets the loop has gone through
Processed == IF pc = "done" THEN Len(inputs.replacement_assets) ELSE idx

UnknownMethodsAccounted ==
    pc \in {"replacements", "done"} =>
        /\ Len(WarningsOfKind("unknown_method")) = Cardinality(UnknownAmong(Processed))
        /\ \A k \in UnknownAmong(Processed) :
               \E i \in 1..Len(results.warnings) :
                   results.warnings[i] = [kind |-> "unknown_method", index |-> k]
        /\ Len(results.replacement_details) + Len(WarningsOfKind("unknown_method"))
               = Processed
        /\ \A k \in 1..Len(results.replacement_details) :
               results.replacement_details[k].method_used \in KnownMethods

\* one iteration over an asset with an unknown method changes the warnings only
UnknownMethodStep ==
    (/\ pc = "replacements"
     /\ idx' = idx + 1
     /\ inputs.replacement_assets[idx + 1].method \notin KnownMethods)
    => /\ section_179_remaining' = section_179_remaining
       /\ pc' = "replacements"
       /\ results'.replacement_details = results.replacement_details
       /\ results'.total_bonus_depreciation = results.total_bonus_depreciation
       /\ results'.total_section_179 = results.total_section_179
       /\ results'.total_macrs_first_year = results.total_macrs_first_year
       /\ Len(results'.warnings) = Len(results.warnings) + 1

\* C17: a replacement asset with an unknown method tag is not fatal: it gets exactly
\* one warning, no entry in replacement_details and no deduction, leaves the section
\* 179 counter unchanged, and the other assets are still processed, so that
\* len(replacement_details) + number of unknown-method warnings = number of assets.
C17_UnknownMethodSkipped == []UnknownMethodsAccounted /\ [][UnknownMethodStep]_vars

\* a finished scenario with an unknown asset between two known ones, the later of
\* which still received a section 179 grant
C17_Witness ==
    /\ pc = "done"
    /\ Len(inputs.replacement_assets) = 3
    /\ inputs.replacement_assets[2].method \notin KnownMethods
    /\ Len(results.replacement_details) = 2
    /\ results.replacement_details[2].section_179_deduction > 0
    /\ Len(WarningsOfKind("unknown_method")) = 1

\* C18: net_cash_flow = net_cash_from_liquidation + tax_savings_from_deductions
\* - cash_required_for_replacements, with net_cash_from_liquidation = proceeds - fees
\* - sale taxes and tax savings = total first-year deductions x marginal rate; the
\* shortfall warning, carrying |net_cash_flow|, is emitted iff net_cash_flow < 0.
C18_NetCashFlow ==
    pc = "done" =>
        /\ results.net_cash_flow
               = results.net_cash_from_liquidation + results.tax_savings_from_deductions
                 - results.cash_required_for_replacements
        /\ results.net_cash_from_liquidation
               = SumSeq(Field(results.sale_details, "gross_proceeds"))
                 - SumSeq(Field(results.sale_details, "transaction_fees"))
                 - SumSeq(Field(results.sale_details, "tax_on_recapture"))
                 - SumSeq(Field(results.sale_details, "tax_on_capital_gain"))
        /\ Len(results.sale_details) = Len(inputs.assets_to_sell)
        /\ results.total_first_year_deductions
               = SumSeq(Field(results.replacement_details, "total_first_year_deduction"))
        /\ results.tax_savings_from_deductions
               = MulDiv(results.total_first_year_deductions, inputs.marginal_tax_rate, 100)
        /\ results.cash_required_for_replacements
               = SumSeq(Field(inputs.replacement_assets, "cost"))
        /\ results.net_cash_flow < 0
               <=> Len(WarningsOfKind("additional_cash")) = 1
        /\ results.net_cash_flow >= 0
               <=> Len(WarningsOfKind("additional_cash")) = 0
        /\ \A i \in 1..Len(results.warnings) :
               results.warnings[i].kind = "additional_cash"
                   => results.warnings[i].amount = -results.net_cash_flow

\* a finished scenario with sales and deductions whose replacements cost more than
\* the sales and the tax savings bring in
C18_Witness ==
    /\ pc = "done"
    /\ results.net_cash_from_liquidation > 0
    /\ results.tax_savings_from_deductions > 0
    /\ results.net_cash_flow < 0
    /\ Len(WarningsOfKind("additional_cash")) = 1

\* C19: the section 179 warning is emitted when the remaining budget after all
\* replacement assets is below the original budget and not otherwise; in particular
\* not when no SECTION_179 asset was granted a positive amount.
C19_Section179Warning ==
    pc = "done" =>
        /\ section_179_remaining < section_179_budget * 100
               <=> Len(WarningsOfKind("section_179_limit")) = 1
        /\ section_179_remaining >= section_179_budget * 100
               <=> Len(WarningsOfKind("section_179_limit")) = 0
        /\ (\A k \in 1..Len(Grants) : Grants[k] <= 0)
               => Len(WarningsOfKind("section_179_limit")) = 0
        /\ \A i \in 1..Len(results.warnings) :
               results.warnings[i].kind = "section_179_limit"
                   => results.warnings[i].used
                          = section_179_budget * 100 - section_179_remaining

\* a finished scenario that used part of the budget and still has some left
C19_Witness ==
    /\ pc = "done"
    /\ section_179_remaining > 0
    /\ section_179_remaining < section_179_budget * 100
    /\ Len(WarningsOfKind("section_179_limit")) = 1

(***************************************************************************)
(* AssetManager.create_asset and update_asset with the market valuation    *)
(* provider, the valuation log and the depreciation manager as             *)
(* collaborators whose calls may raise.  Book values are in cents.  The    *)
(* request object is the object the database layer hands back, so          *)
(* results.asset is the one AssetDTO the handler works on.                 *)
(***************************************************************************)
FairMarketValueDTO(time_set, value) == [time_set |-> time_set, value |-> value]

\* AssetDepreciationManager.create_asset_depreciation_schedule for the method tags
\* of AssetRequests; saved is the outcome of writing the schedule rows
create_asset_depreciation_schedule(asset, saved, now) ==
    IF asset.depreciation_method = "StraightLine"
    THEN IF asset.useful_life = None THEN Raised("ValueError")
         ELSE LET end_of_month_values ==
                      straight_line_depreciation(asset.book_value, asset.salvage_value,
                                                 Val(asset.useful_life), now)
              IN  IF Len(end_of_month_values) # 1 THEN end_of_month_values
                  ELSE IF Len(Val(end_of_month_values)) > 0
                  THEN IF asset.asset_id > 0
                       THEN IF saved = "raise" THEN Raised("PostgresError")
                            ELSE Some([asset EXCEPT !.asset_depreciation_schedule =
                                                        Val(end_of_month_values)])
                       ELSE Raised("Exception")
                  ELSE Raised("Exception")
    ELSE Raised("ValueError")

\* AssetDepreciationManager.update_asset_depreciation_record
update_asset_depreciation_record(asset, saved, now) ==
    IF asset.asset_id <= 0 THEN Raised("Exception")
    ELSE IF asset.depreciation_method = "StraightLine"
    THEN IF asset.useful_life = None THEN Raised("ValueError")
         ELSE LET end_of_month_values ==
                      straight_line_depreciation(asset.book_value, asset.salvage_value,
                                                 Val(asset.useful_life), now)
              IN  IF Len(end_of_month_values) # 1 THEN end_of_month_values
                  ELSE IF Len(Val(end_of_month_values)) > 0
                  THEN IF saved = "raise" THEN Raised("PostgresError")
                       ELSE Some([asset EXCEPT !.asset_depreciation_schedule =
                                                   Val(end_of_month_values)])
                  ELSE Raised("Exception")
    ELSE Raised("ValueError")

\* the try block around the valuation: fetched is the provider's outcome ("ok" or
\* the exception it raised), value the adjusted value of the valuation it returned,
\* stored the outcome of the insert into the valuation log
TryValuation(res, fetched, value, stored, now) ==
    IF res.asset.type \notin {"Equipment", "Vehicle"} THEN res
    ELSE IF fetched # "ok" \/ stored # "ok"
    THEN [res EXCEPT !.output = Append(@, "valuation")]
    ELSE [res EXCEPT
             !.valuation_log = Append(@, [asset_id |-> res.asset.asset_id,
                                          value |-> value]),
             !.asset.fair_market_values_over_time =
                 <<FairMarketValueDTO(now, IF value = None THEN 0 ELSE Val(value))>>]

\* the try block around the depreciation manager, whose result is scheduled
TryDepreciation(res, scheduled) ==
    IF Len(scheduled) = 1
    THEN [res EXCEPT !.asset = Val(scheduled), !.schedule_calls = @ + 1]
    ELSE [res EXCEPT !.output = Append(@, "depreciation"), !.schedule_calls = @ + 1]

ProviderOutcomes == {"ok", "HTTPStatusError", "ValueError"}

AdjustedValues == {None, Some(0), Some(2500000)}

\* what a request may carry in fair_market_values_over_time
RequestFairMarketValues == {<<>>, <<FairMarketValueDTO(Date(2023, 1, 1), 99900)>>}

AssetRequests ==
    { [asset_id |-> i, type |-> t, book_value |-> 120000, salvage_value |-> 0,
       depreciation_method |-> m, useful_life |-> u,
       fair_market_values_over_time |-> f, asset_depreciation_schedule |-> <<>>] :
      i \in {0, 7}, t \in {"Equipment", "Vehicle", "Building"},
      m \in {"StraightLine", "SumOfYears"}, u \in {None, Some(0), Some(1)},
      f \in RequestFairMarketValues }

AssetCalls ==
    { [op |-> "create_asset", asset |-> a, now |-> LoanNow] :
      a \in {r \in AssetRequests : r.asset_id = 0} }
    \cup
    { [op |-> "update_asset", asset |-> a, now |-> LoanNow] : a \in AssetRequests }

InitAsset ==
    /\ pc = "begin"
    /\ inputs = <<>>
    /\ tax_year = 0
    /\ section_179_budget = 0
    /\ section_179_remaining = 0
    /\ idx = 0
    /\ call \in AssetCalls
    /\ results = [asset |-> call.asset, valuation_log |-> <<>>, output |-> <<>>,
                  schedule_calls |-> 0]
    /\ ret = None

assetFixed == <<inputs, tax_year, section_179_budget, section_179_remaining, idx, call>>

\* the asset exists already: create_asset returns None
CreateAssetExists ==
    /\ call.op = "create_asset"
    /\ pc = "begin"
    /\ pc' = "exists"
    /\ ret' = Some(None)
    /\ UNCHANGED <<results, assetFixed>>

\* the asset is inserted and gets the identifier the database returns
CreateAssetInsert ==
    /\ call.op = "create_asset"
    /\ pc = "begin"
    /\ \E asset_id \in {7, 8} : results' = [results EXCEPT !.asset.asset_id = asset_id]
    /\ pc' = "valuation"
    /\ UNCHANGED <<ret, assetFixed>>

CreateAssetValuation ==
    /\ call.op = "create_asset"
    /\ pc = "valuation"
    /\ \E fetched \in ProviderOutcomes, value \in AdjustedValues, stored \in {"ok", "raise"} :
           results' = TryValuation(results, fetched, value, stored, call.now)
    /\ pc' = "depreciation"
    /\ UNCHANGED <<ret, assetFixed>>

CreateAssetDepreciation ==
    /\ call.op = "create_asset"
    /\ pc = "depreciation"
    /\ \E saved \in {"ok", "raise"} :
           results' = TryDepreciation(results,
                          create_asset_depreciation_schedule(results.asset, saved, call.now))
    /\ ret' = Some(results'.asset)
    /\ pc' = "done"
    /\ UNCHANGED assetFixed

\* update_asset_async raises when the UPDATE touched no row
UpdateAssetNoRows ==
    /\ call.op = "update_asset"
    /\ pc = "begin"
    /\ pc' = "raised"
    /\ ret' = Raised("Exception")
    /\ UNCHANGED <<results, assetFixed>>

UpdateAssetStored ==
    /\ call.op = "update_asset"
    /\ pc = "begin"
    /\ pc' = "valuation"
    /\ UNCHANGED <<results, ret, assetFixed>>

UpdateAssetValuation ==
    /\ call.op = "update_asset"
    /\ pc = "valuation"
    /\ \E fetched \in ProviderOutcomes, value \in AdjustedValues, stored \in {"ok", "raise"} :
           results' = TryValuation(results, fetched, value, stored, call.now)
    /\ pc' = "depreciation"
    /\ UNCHANGED <<ret, assetFixed>>

UpdateAssetDepreciation ==
    /\ call.op = "update_asset"
    /\ pc = "depreciation"
    /\ \E saved \in {"ok", "raise"} :
           results' = TryDepreciation(results,
                          update_asset_depreciation_record(results.asset, saved, call.now))
    /\ ret' = Some(results'.asset)
    /\ pc' = "done"
    /\ UNCHANGED assetFixed

NextAsset ==
    \/ CreateAssetExists
    \/ CreateAssetInsert
    \/ CreateAssetValuation
    \/ CreateAssetDepreciation
    \/ UpdateAssetNoRows
    \/ UpdateAssetStored
    \/ UpdateAssetValuation
    \/ UpdateAssetDepreciation

SpecAsset == InitAsset /\ [][NextAsset]_vars

\* the valuation try block ended in its except branch
ValuationFailed ==
    /\ pc \in {"depreciation", "done"}
    /\ \E i \in 1..Len(results.output) : results.output[i] = "valuation"

\* whatever the valuation did, the operation goes on to the depreciation step, and
\* once done it has returned the asset after exactly one call of that step; after a
\* failed valuation nothing was logged and the field is as the request carried it
ValuationFailureNeverAborts ==
    /\ pc = "valuation" => ret = None
    /\ pc = "depreciation" => ret = None /\ results.schedule_calls = 0
    /\ pc = "done" =>
           /\ Len(ret) = 1
           /\ Val(ret) = results.asset
           /\ results.schedule_calls = 1
    /\ ValuationFailed =>
           /\ Len(results.valuation_log) = 0
           /\ results.asset.fair_market_values_over_time
                  = call.asset.fair_market_values_over_time

\* C20: a failure of the valuation provider, or of storing its result, never aborts
\* create_asset or update_asset: the asset is returned, the depreciation-schedule
\* step runs afterwards, and fair_market_values_over_time is left absent.
C20_ValuationFailureDegrades ==
    (ValuationFailed /\ pc = "done") =>
        /\ Len(ret) = 1
        /\ Val(ret).asset_id = results.asset.asset_id
        /\ results.schedule_calls = 1
        /\ Val(ret).fair_market_values_over_time = <<>>

(***************************************************************************)
(* Interleaved calculate_scenario invocations on the one module-level      *)
(* ScenarioCalculationService of routes/scenarios.py.  The service object  *)
(* holds only its three stateless collaborators; results, the budget, the  *)
(* counter and the loop position are locals of each invocation, so each    *)
(* variable holds one value per invocation.                                *)
(***************************************************************************)
Invocations == {1, 2}

\* the sales loop from the i-th sale on
RECURSIVE SalesFrom(_, _, _)
SalesFrom(res, inp, i) ==
    IF i > Len(inp.assets_to_sell) THEN res
    ELSE SalesFrom(SaleProcessed(res, inp.assets_to_sell[i], inp), inp, i + 1)

\* the replacement loop over assets i..last, on [results, section_179_remaining]
RECURSIVE ReplacementsFrom(_, _, _, _)
ReplacementsFrom(state, inp, i, last) ==
    IF i > last THEN state
    ELSE ReplacementsFrom(
             ReplacementProcessed(state.results, inp.replacement_assets[i],
                                  state.section_179_remaining, i, inp),
             inp, i + 1, last)

\* the locals after the first n iterations of the replacement loop of one call
AfterReplacements(inp, year, n) ==
    ReplacementsFrom([results |-> SalesClosed(SalesFrom(NewScenarioResults, inp, 1), inp),
                      section_179_remaining |-> Section179Budget(inp, year) * 100],
                     inp, 1, n)

\* calculate_scenario run from start to end on its own
calculate_scenario(inp, year) ==
    Aggregated(AfterReplacements(inp, year, Len(inp.replacement_assets)).results,
               inp, Section179Budget(inp, year),
               AfterReplacements(inp, year, Len(inp.replacement_assets))
                   .section_179_remaining)

ConcurrentReplacementLists ==
    { << ReplacementAsset(60000, "SECTION_179", 100, 2025, 5),
         ReplacementAsset(80000, "SECTION_179", 50, 2025, 5) >>,
      << ReplacementAsset(50000, "BONUS", 100, 2024, 5),
         ReplacementAsset(60000, "SECTION_179", 100, 2025, 5) >>,
      << ReplacementAsset(70000, "LEASE", 100, 2025, 5) >> }

ConcurrentInputs ==
    { inp \in ScenarioInputSet :
          /\ Len(inp.assets_to_sell) <= 1
          /\ inp.replacement_assets \in ConcurrentReplacementLists
          /\ inp.business_income_limit = None
          /\ inp.override_section_179_limit \in {None, Some(1000)} }

InitConcurrent ==
    /\ inputs \in [Invocations -> ConcurrentInputs]
    /\ tax_year = 2024
    /\ pc = [i \in Invocations |-> "sales"]
    /\ results = [i \in Invocations |-> NewScenarioResults]
    /\ section_179_budget = [i \in Invocations |-> 0]
    /\ section_179_remaining = [i \in Invocations |-> 0]
    /\ idx = [i \in Invocations |-> 0]
    /\ ScenarioIdle

\* faulty variant: every invocation reads the counter of the first one
SharedCounter(counters, i) == counters[1]

\* section_179_remaining is a local of the invocation that reads it
OwnCounter(counters, i) == counters[i]

InvocationProcessSale ==
    \E i \in Invocations :
        /\ pc[i] = "sales"
        /\ idx[i] < Len(inputs[i].assets_to_sell)
        /\ results' = [results EXCEPT ![i] =
               SaleProcessed(@, inputs[i].assets_to_sell[idx[i] + 1], inputs[i])]
        /\ idx' = [idx EXCEPT ![i] = @ + 1]
        /\ UNCHANGED <<pc, inputs, tax_year, section_179_budget,
                       section_179_remaining, call, ret>>

InvocationComputeBudget ==
    \E i \in Invocations :
        /\ pc[i] = "sales"
        /\ idx[i] = Len(inputs[i].assets_to_sell)
        /\ results' = [results EXCEPT ![i] = SalesClosed(@, inputs[i])]
        /\ section_179_budget' =
               [section_179_budget EXCEPT ![i] = Section179Budget(inputs[i], tax_year)]
        /\ section_179_remaining' =
               [section_179_remaining EXCEPT
                   ![i] = Section179Budget(inputs[i], tax_year) * 100]
        /\ pc' = [pc EXCEPT ![i] = "replacements"]
        /\ idx' = [idx EXCEPT ![i] = 0]
        /\ UNCHANGED <<inputs, tax_year, call, ret>>

InvocationProcessReplacement ==
    \E i \in Invocations :
        /\ pc[i] = "replacements"
        /\ idx[i] < Len(inputs[i].replacement_assets)
        /\ results' = [results EXCEPT ![i] =
               ReplacementProcessed(@, inputs[i].replacement_assets[idx[i] + 1],
                   OwnCounter(section_179_remaining, i), idx[i] + 1, inputs[i]).results]
        /\ section_179_remaining' = [section_179_remaining EXCEPT ![i] =
               ReplacementProcessed(results[i], inputs[i].replacement_assets[idx[i] + 1],
                   OwnCounter(section_179_remaining, i), idx[i] + 1, inputs[i])
                   .section_179_remaining]
        /\ idx' = [idx EXCEPT ![i] = @ + 1]
        /\ UNCHANGED <<pc, inputs, tax_year, section_179_budget, call, ret>>

InvocationAggregate ==
    \E i \in Invocations :
        /\ pc[i] = "replacements"
        /\ idx[i] = Len(inputs[i].replacement_assets)
        /\ results' = [results EXCEPT ![i] =
               Aggregated(@, inputs[i], section_179_budget[i],
                          OwnCounter(section_179_remaining, i))]
        /\ pc' = [pc EXCEPT ![i] = "done"]
        /\ UNCHANGED <<inputs, tax_year, section_179_budget, section_179_remaining,
                       idx, call, ret>>

NextConcurrent ==
    \/ InvocationProcessSale
    \/ InvocationComputeBudget
    \/ InvocationProcessReplacement
    \/ InvocationAggregate

SpecConcurrent == InitConcurrent /\ [][NextConcurrent]_vars

\* C21: interleaved calculate_scenario invocations on the shared service each use
\* their own section 179 counter and their own accumulator: in every interleaving
\* the counter and the accumulator of an invocation inside its replacement loop are
\* those of the same invocation run alone up to that iteration, and the result of a
\* finished invocation equals the result of running it alone.
C21_InvocationsIndependent ==
    \A i \in Invocations :
        /\ pc[i] = "replacements" =>
               /\ section_179_remaining[i] =
                      AfterReplacements(inputs[i], tax_year, idx[i]).section_179_remaining
               /\ results[i] = AfterReplacements(inputs[i], tax_year, idx[i]).results
        /\ pc[i] = "done" => results[i] = calculate_scenario(inputs[i], tax_year)

\* both invocations are inside their replacement loops at once, each having been
\* granted section 179 out of a budget of its own, the second one with a different
\* request and a different amount left
C21_Witness ==
    /\ pc[1] = "replacements" /\ pc[2] = "replacements"
    /\ idx[1] = 1 /\ idx[2] = 2
    /\ inputs[1] # inputs[2]
    /\ results[1].total_section_179 > 0
    /\ results[2].total_section_179 > 0
    /\ section_179_remaining[1] # section_179_remaining[2]
    /\ section_179_remaining[1] < section_179_budget[1] * 100
    /\ section_179_remaining[2] < section_179_budget[2] * 100

\* ---- AssetManager: a depreciation method the manager does not know ----
\* the method tags AssetDepreciationManager has a branch for
DepreciationMethods ==
    {"StraightLine", "DecliningBalance", "DoubleDecliningBalance", "UnitsOfProduction"}

\* the depreciation manager was called and raised
DepreciationRejected ==
    /\ pc = "done"
    /\ \E i \in 1..Len(results.output) : results.output[i] = "depreciation"

\* C22: an unknown depreciation method is always surfaced to the caller as an
\* error: the depreciation manager raises for it, and create_asset / update_asset
\* do not return an asset (report success) when the method was rejected.
C22_UnknownMethodSurfaced ==
    (pc = "done" /\ call.asset.depreciation_method \notin DepreciationMethods) =>
        /\ DepreciationRejected
        /\ Len(ret) = 2

\* ---- loan engine: date strings that do not parse ----
\* the loan with the dates the engine is meant to use for it written out
WithSubstitutedDates(loan, now) ==
    LET start_date == IF IsValidDateString(loan.loan_start_date)
                      THEN loan.loan_start_date ELSE now
    IN  [loan EXCEPT
            !.loan_start_date = start_date,
            !.loan_end_date = IF IsValidDateString(loan.loan_end_date)
                              THEN loan.loan_end_date
                              ELSE AddMonths(start_date, loan.loan_term_years * 12)]

\* C23: a malformed or missing date string never makes the loan engine fail: the
\* schedule is the one of the loan with now for an unparseable start date and
\* start + term for an unparseable end date, and the payoff is the one computed
\* for now when payoff_date does not parse.
C23_MalformedDateSubstituted ==
    /\ ScheduleReturned =>
           /\ Len(ret) = 1
           /\ Val(ret) = generate_amortization_schedule(
                             WithSubstitutedDates(call.loan, call.now), call.now)
    /\ PayoffReturned =>
           /\ Len(ret) = 1
           /\ Val(ret) =
                  [calculate_loan_payoff(
                       WithSubstitutedDates(call.loan, call.now),
                       IF IsValidDateString(call.payoff_date)
                       THEN call.payoff_date ELSE call.now,
                       call.prepayment_penalty_rate, call.now)
                   EXCEPT !.payoff_date = call.payoff_date]

\* a schedule for a loan whose start and end date are both malformed: twelve lines,
\* the first one a month after now
C23_Witness ==
    /\ ScheduleReturned
    /\ call.loan.loan_start_date = Malformed
    /\ call.loan.loan_end_date = Malformed
    /\ Len(Val(ret)) = 12
    /\ Val(ret)[1].payment_date = AddMonths(call.now, 1)
    /\ Val(ret)[12].payment_date = AddMonths(call.now, 12)


(***************************************************************************)
(* C24: the projected schedule of generate_loan_schedule                   *)
(***************************************************************************)
LoanScheduleReturned ==
    /\ call.op = "generate_loan_schedule"
    /\ ret # None

\* dates one month apart, balances non-increasing and never negative, no entry after
\* the end date, at most one entry per month of the term
LoanScheduleShape(schedule, loan, now) ==
    /\ \A i \in 1..Len(schedule) :
          /\ schedule[i].new_remaining_value >= 0
          /\ DateLE(schedule[i].loan_payment_date, EndDate(loan, now))
    /\ \A i \in 1..(Len(schedule) - 1) :
          /\ schedule[i + 1].loan_payment_date
                = AddMonths(schedule[i].loan_payment_date, 1)
          /\ ~DateLE(schedule[i + 1].loan_payment_date, schedule[i].loan_payment_date)
          /\ schedule[i + 1].new_remaining_value <= schedule[i].new_remaining_value
    /\ Len(schedule) <= loan.loan_term_years * 12

\* the part of C24 that holds on every call: the shape of the schedule
LoanScheduleWellFormed ==
    LoanScheduleReturned /\ call.loan.monthly_payment > 0
        => LoanScheduleShape(Val(ret), call.loan, call.now)

\* C24: for a loan with a positive monthly_payment, generate_loan_schedule returns
\* entries with strictly monthly increasing dates whose new_remaining_value is
\* non-increasing and never negative, at most term_years * 12 of them, and when the
\* payment is the computed amortizing payment the last balance is below 10
C24_LoanScheduleAmortizes ==
    LoanScheduleReturned /\ call.loan.monthly_payment > 0
        => /\ LoanScheduleShape(Val(ret), call.loan, call.now)
           /\ call.loan \in ManagerLoans /\ Len(Val(ret)) > 0
                 => Val(ret)[Len(Val(ret))].new_remaining_value < 10000


(***************************************************************************)
(* C26: the projected payments persisted by LoanManager                    *)
(***************************************************************************)
ProjectionStored ==
    /\ call.op \in {"create_loan", "update_loan"}
    /\ Len(ret) = 1

\* every projected payment has an amortization line of the same date with the same
\* balance
DerivedFromAmortization(projected_payments, amortization) ==
    \A i \in 1..Len(projected_payments) :
        \E j \in 1..Len(amortization) :
            /\ amortization[j].payment_date = projected_payments[i].loan_payment_date
            /\ amortization[j].remaining_balance
                  = projected_payments[i].new_remaining_value

\* C26: for every payment date stored by create_loan / update_loan, the stored
\* new_remaining_value equals the remaining_balance of the AmortizationLine with the
\* same date that generate_amortization_schedule produces for the stored loan
C26_ProjectionFollowsAmortization ==
    ProjectionStored
        => DerivedFromAmortization(Val(ret).projected_payments,
               generate_amortization_schedule(Val(ret).loan, call.now))


(***************************************************************************)
(* C25: the pro-rated interest of the period the payoff date falls in      *)
(***************************************************************************)
\* the number of schedule lines dated on or before target_date (a prefix: the dates
\* increase)
LinesThrough(schedule, target_date) ==
    Cardinality({ i \in 1..Len(schedule) : DateLE(schedule[i].payment_date, target_date) })

\* days from one month before the line's date to target_date
ElapsedDays(line, target_date) ==
    DaysBetween(AddMonths(line.payment_date, -1), target_date)

\* interest of the k lines paid in full plus elapsed/30 of the next line's interest
InterestWithProration(schedule, k, target_date) ==
    SumSeq(Field(SubSeq(schedule, 1, k), "interest_payment"))
    + (IF k < Len(schedule)
       THEN MulDiv(schedule[k + 1].interest_payment,
                   ElapsedDays(schedule[k + 1], target_date), 30)
       ELSE 0)

ProrationApplies(schedule, k, target_date) ==
    k < Len(schedule) => ElapsedDays(schedule[k + 1], target_date) >= 0

ProratedAsClaimed(payoff, schedule, target_date) ==
    ProrationApplies(schedule, LinesThrough(schedule, target_date), target_date)
        => payoff.total_interest_paid
              = Round2(InterestWithProration(schedule,
                           LinesThrough(schedule, target_date), target_date))

\* C25: the first schedule line after payoff_date contributes its interest times
\* elapsed_days / 30 to total_interest_paid, for every number of elapsed days in that
\* period, and no later line contributes anything
C25_InterestProrated ==
    PayoffReturned
        => ProratedAsClaimed(Val(ret),
               generate_amortization_schedule(call.loan, call.now),
               ParseOr(call.payoff_date, call.now))


(***************************************************************************)
(* C28: the payoff figures as the payoff date moves later                  *)
(***************************************************************************)
\* the figures of a later payoff date against those of an earlier one
PayoffNotEarlier(later, earlier) ==
    /\ later.total_interest_paid >= earlier.total_interest_paid
    /\ later.total_principal_paid >= earlier.total_principal_paid
    /\ later.remaining_balance <= earlier.remaining_balance

\* C28: calculate_loan_payoff is monotone in the payoff date: against every earlier
\* payoff date of the same loan, interest paid and principal paid are not smaller and
\* the remaining balance is not larger, dates 30 or 31 days into a period included
\* (stated for loans that are being paid down: monthly_payment > 0)
C28_PayoffMonotone ==
    PayoffReturned /\ IsValidDateString(call.payoff_date) /\ call.loan.monthly_payment > 0
        => \A earlier \in PayoffDates :
              IsValidDateString(earlier) /\ DateLE(earlier, call.payoff_date)
                  => PayoffNotEarlier(Val(ret),
                         calculate_loan_payoff(call.loan, earlier,
                             call.prepayment_penalty_rate, call.now))


(***************************************************************************)
(* C27: Section 179 against the business income limit                      *)
(***************************************************************************)
\* C27: when business_income_limit is given, the scenario's total_section_179 never
\* exceeds it (stated for a business income that is not a loss)
C27_Section179WithinBusinessIncome ==
    (pc = "done" /\ inputs.business_income_limit # None
                 /\ Val(inputs.business_income_limit) >= 0)
        => results.total_section_179 <= Val(inputs.business_income_limit)


(***************************************************************************)
(* C29: what the purchase totals and the deduction total range over        *)
(***************************************************************************)
\* C29: total_replacement_cost, cash_required_for_replacements and the purchase total
\* given to the phaseout are the sum of cost over all listed replacement assets, the
\* ones with an unknown method included; total_first_year_deductions is the sum over
\* the entries of replacement_details only
C29_TotalsOverAllReplacements ==
    pc = "done"
        => /\ results.total_replacement_cost
                 = SumSeq(Field(inputs.replacement_assets, "cost"))
           /\ results.cash_required_for_replacements
                 = SumSeq(Field(inputs.replacement_assets, "cost"))
           /\ inputs.override_section_179_limit = None
                 => section_179_budget
                       = calculate_section_179_limit_with_phaseout(
                             SumSeq(Field(inputs.replacement_assets, "cost")), tax_year)
           /\ results.total_first_year_deductions
                 = SumSeq(Field(results.replacement_details,
                                "total_first_year_deduction"))

\* two 2,000,000 purchases and a leased asset: the phaseout is active and the leased
\* asset's cost moves the budget although it has no entry in replacement_details
C29_Witness ==
    /\ pc = "done"
    /\ inputs.override_section_179_limit = None
    /\ Len(inputs.replacement_assets) = 3
    /\ Len(results.replacement_details) = 2
    /\ \E i \in 1..3 : inputs.replacement_assets[i].method = "LEASE"
    /\ section_179_budget > 0
    /\ section_179_budget
          < calculate_section_179_limit_with_phaseout(
                SumSeq(Field(results.replacement_details, "cost")), tax_year)


(***************************************************************************)
(* C30: the accumulated depreciation estimate                              *)
(***************************************************************************)
EstimateReturned ==
    /\ call.op = "calculate_accumulated_depreciation_estimate"
    /\ call.method \in {"MACRS_GDS", "STRAIGHT_LINE"}
    /\ Len(ret) = 1

\* the estimate of the same asset had it been bought on purchase_date
EstimateFor(purchase_date) ==
    calculate_accumulated_depreciation_estimate(
        call.original_cost, purchase_date, call.useful_life, call.method, call.now)

\* the part of C30 that holds: for a purchase date that is not in the future the
\* estimate is between 0 and original_cost and not below that of a later past date
EstimateSoundForPastPurchases ==
    EstimateReturned /\ DateLE(call.purchase_date, call.now)
        => /\ Val(ret) >= 0
           /\ Val(ret) <= call.original_cost
           /\ \A later \in EstimatePurchaseDates :
                 DateLE(call.purchase_date, later) /\ DateLE(later, call.now)
                     => Val(ret) >= Val(EstimateFor(later))

\* C30: for MACRS_GDS and STRAIGHT_LINE and every purchase date, future ones
\* included, the estimate is between 0 and original_cost, is not below the estimate
\* for any later purchase date (less elapsed time), and is 0 for a purchase date that
\* has not been reached
C30_EstimateBounded ==
    EstimateReturned
        => /\ Val(ret) >= 0
           /\ Val(ret) <= call.original_cost
           /\ \A later \in EstimatePurchaseDates :
                 DateLE(call.purchase_date, later)
                     => Val(ret) >= Val(EstimateFor(later))
           /\ ~DateLE(call.purchase_date, call.now) => Val(ret) = 0

=============================================================================
